---- MODULE Spec2Model ----
(***************************************************************************)
(* Customer self-order page of pos-ninekerl (src/unnamed/part_001): the    *)
(* cart (orderState), the customization modal (modalState), the order      *)
(* submission round trip, and the pure helpers that build cart keys, notes *)
(* and unit prices.                                                        *)
(*                                                                         *)
(* Conventions                                                             *)
(*  - A JavaScript string is a sequence of UTF-16 code units (naturals),   *)
(*    so concatenation, join and the default Array.prototype.sort order    *)
(*    are computed, not assumed.                                           *)
(*  - An amount of money is an integer number of thousandths of a baht.    *)
(*    Catalog prices are whole satang (multiples of 10); toFixed(2) is     *)
(*    modelled as rounding to the nearest multiple of 10, half up.  Binary *)
(*    floating-point error below the rounding step is not modelled.        *)
(*  - A JavaScript Map is a sequence of entries in insertion order.        *)
(***************************************************************************)
EXTENDS Integers, Sequences, FiniteSets, Bags, TLC

VARIABLES
  orderState,          \* Map key -> cart line, as a sequence in insertion order
  modalState,          \* the open customization session, or NoModal
  submitDisabled,      \* submitBtn.disabled
  orderTotalLabel,     \* amount shown in orderTotalLabel
  orderStatusMessage,  \* orderStatusMessage.textContent
  noteField,           \* noteField.value (order-level note)
  inflight,            \* bag of suspended submitOrder invocations
  alertMsg,            \* what the last handler passed to alert(), or NoAlert
  specialToggleChecked, \* specialToggle.checked
  keyA, keyB,          \* two selection states compared by the key properties
  timeLeft,            \* LemonScene.timeLeft, seconds
  isPlaying,           \* LemonScene.isPlaying
  squeezeCount,        \* LemonScene.squeezeCount
  gameOver,            \* LemonScene.gameOver (undefined, hence falsy, until endGame)
  scenePaused,         \* the scene was paused by scene.pause()
  resultOverlay,       \* #result-overlay: class visible and dataset.success
  reports,             \* calls of LemonGame.showResult made by the running game
  resultBanner,        \* the text of LemonScene.resultBanner
  checkedRows,         \* billing page: indices of the rows whose checkbox is checked
  summaryBox,          \* billing page: count and total shown in billingSummary
  hiddenInput,         \* billing page: the order ids in selectedOrderIds
  confirmBtnDisabled,  \* confirmBtn.disabled
  generateBtnDisabled, \* generateBtn.disabled
  qrPreviewHidden,     \* qrPreview.hidden
  qrImageSrc,          \* the order ids the image in qrImage was made for, or NoSrc
  qrInflight,          \* bag of suspended generateQr invocations
  billingAlert,        \* what the last billing handler passed to alert(), or Quiet
  settleSubmitted,     \* billing page: settleForm was submitted and the page left
  serverOrders,        \* kitchen: the status the server holds for each order
  currentOrderIds,     \* kitchen: the Set currentOrderIds
  ordersContainer,     \* kitchen: the order cards in ordersContainer, in order
  fetchInflight,       \* kitchen: suspended fetchOrders invocations, oldest first
  statusInflight,      \* kitchen: suspended status change handlers, oldest first
  beeps,               \* kitchen: tones scheduled by the last handler
  audioContext,        \* kitchen: an AudioContext has been created
  kitchenAlert,        \* kitchen: what the last handler passed to alert(), or Quiet
  renderedStale,       \* kitchen: the last handler rendered a list that was
                       \* requested before one rendered earlier
  announced,           \* kitchen: the orders announced as new and listed by
                       \* every rendering since
  pollHandle,          \* customer page: pollHandle, or NoHandle
  timers,              \* customer page: the ids of the live interval timers
  activeOrdersHidden,  \* activeOrdersSection.hidden
  activeOrdersList,    \* the cards in activeOrdersList, in order
  activeFetches        \* number of suspended fetchActiveOrders invocations
                       \* started by the load listener or a timer

vars == <<orderState, modalState, submitDisabled, orderTotalLabel,
          orderStatusMessage, noteField, inflight, alertMsg,
          specialToggleChecked, keyA, keyB,
          timeLeft, isPlaying, squeezeCount, gameOver, scenePaused,
          resultOverlay, reports, resultBanner,
          checkedRows, summaryBox, hiddenInput, confirmBtnDisabled,
          generateBtnDisabled, qrPreviewHidden, qrImageSrc, qrInflight,
          billingAlert, settleSubmitted,
          serverOrders, currentOrderIds, ordersContainer, fetchInflight,
          statusInflight, beeps, audioContext, kitchenAlert, renderedStale,
          announced,
          pollHandle, timers, activeOrdersHidden, activeOrdersList,
          activeFetches>>

\* the variables of each page
gameVars == <<timeLeft, isPlaying, squeezeCount, gameOver, scenePaused,
              resultOverlay, reports, resultBanner>>
billingVars == <<checkedRows, summaryBox, hiddenInput, confirmBtnDisabled,
                 generateBtnDisabled, qrPreviewHidden, qrImageSrc, qrInflight,
                 billingAlert, settleSubmitted>>
kitchenVars == <<serverOrders, currentOrderIds, ordersContainer, fetchInflight,
                 statusInflight, beeps, audioContext, kitchenAlert, renderedStale,
                 announced>>
trackingVars == <<pollHandle, timers, activeOrdersHidden, activeOrdersList,
                  activeFetches>>

(***************************************************************************)
(* Bounds                                                                  *)
(***************************************************************************)
MaxCartUnits == 2      \* sum of the quantities in the cart, in Spec and SpecSubmit
MaxModalQuantity == 2  \* quantity of an open session
MaxOrderUnits == 3     \* sum of the quantities in the cart, in SpecCart
MaxInflight == 2       \* suspended submitOrder invocations
MaxQrRequests == 2     \* suspended generateQr invocations
MaxRequests == 2       \* suspended fetchOrders invocations and status change handlers
MaxActiveFetches == 2  \* suspended fetchActiveOrders invocations of the load listener and timers

(***************************************************************************)
(* Strings                                                                 *)
(***************************************************************************)
\* code units of the characters the key format uses
CharCode == [c \in {"-", "0", ":", "a", "b", "e", "n", "o", "s", "|"} |->
               CASE c = "-" -> 45  [] c = "0" -> 48  [] c = ":" -> 58
                 [] c = "a" -> 97  [] c = "b" -> 98  [] c = "e" -> 101
                 [] c = "n" -> 110 [] c = "o" -> 111 [] c = "s" -> 115
                 [] c = "|" -> 124]

StrNone == <<CharCode["n"], CharCode["o"], CharCode["n"], CharCode["e"]>>
StrBase == <<CharCode["b"], CharCode["a"], CharCode["s"], CharCode["e"]>>

\* String(n) for a non-negative integer n
RECURSIVE NumberToString(_)
NumberToString(n) ==
  IF n < 10 THEN <<CharCode["0"] + n>>
  ELSE NumberToString(n \div 10) \o <<CharCode["0"] + (n % 10)>>

\* a < b in the order of the default sort: code unit by code unit, a proper
\* prefix first
RECURSIVE StringLess(_, _)
StringLess(a, b) ==
  IF b = <<>> THEN FALSE
  ELSE IF a = <<>> THEN TRUE
  ELSE IF Head(a) # Head(b) THEN Head(a) < Head(b)
  ELSE StringLess(Tail(a), Tail(b))

\* insert string s into the sorted sequence of strings t
RECURSIVE SortInsert(_, _)
SortInsert(s, t) ==
  IF t = <<>> THEN <<s>>
  ELSE IF StringLess(s, Head(t)) THEN <<s>> \o t
  ELSE <<Head(t)>> \o SortInsert(s, Tail(t))

\* Array.prototype.sort() without a comparator, on an array of strings
RECURSIVE ArraySort(_)
ArraySort(arr) ==
  IF arr = <<>> THEN <<>>
  ELSE SortInsert(arr[Len(arr)], ArraySort(SubSeq(arr, 1, Len(arr) - 1)))

\* Array.prototype.join(sep)
RECURSIVE ArrayJoin(_, _)
ArrayJoin(arr, sep) ==
  IF arr = <<>> THEN <<>>
  ELSE IF Len(arr) = 1 THEN arr[1]
  ELSE arr[1] \o sep \o ArrayJoin(Tail(arr), sep)

\* Number(x.toFixed(2)) on an amount in thousandths
ToFixed2(x) == ((x + 5) \div 10) * 10

\* formatCurrency(value): the two-decimal rendering, kept as the amount shown
formatCurrency(value) == ToFixed2(value)

(***************************************************************************)
(* Catalog: window.MENU_CONFIGS and the menu cards of the page             *)
(***************************************************************************)
NoSpecial == [none |-> TRUE]
NoOption == [none |-> TRUE]
NoModal == [closed |-> TRUE]
NoAlert == [none |-> TRUE]

\* a number that the catalog or the page leaves out (undefined, or the NaN
\* that Number() makes of it), and an array that the catalog leaves out
UndefinedNumber == 0 - 1
UndefinedArray == <<[undefined |-> TRUE]>>

\* Number(x) without the fallback to 0
NumberOrZero_NoFallback(x) == x

\* Number(x || 0) and Number(x) || 0
NumberOrZero(x) == IF x = UndefinedNumber THEN 0 ELSE x

\* x || [] and Array.isArray(x) ? x : []
ArrayOrEmpty(x) == IF x = UndefinedArray THEN <<>> ELSE x

Opt(id, price) == [id |-> id, price |-> price]
Group(id, type, required, options) ==
  [id |-> id, selection_type |-> type, is_required |-> required, options |-> options]

\* items 1 and 4: no customization; item 2: a required single group and a
\* special option; item 3: a required multiple group and an optional single
\* group; item 5: a required multiple group, an optional single group and a
\* required single group that has no options; item 12: multiple groups
\* whose ids and option ids are prefixes of one another; item 6: no base
\* price, a group without options array, option prices and a special price
\* left out; item 7: no groups list; item 8: a required single group with
\* options and a required multiple group.  Item 9 has a menu card and no entry.
menuConfigs ==
  [i \in {1, 2, 3, 4, 5, 6, 7, 8, 12} |->
     CASE i = 1 -> [base_price |-> 50000, groups |-> <<>>, special |-> NoSpecial]
       [] i = 4 -> [base_price |-> 25000, groups |-> <<>>, special |-> NoSpecial]
       [] i = 2 -> [base_price |-> 40000,
                    groups |-> <<Group(10, "single", TRUE, <<Opt(100, 5000), Opt(101, 0)>>)>>,
                    special |-> [price_delta |-> 10000]]
       [] i = 3 -> [base_price |-> 30000,
                    groups |-> <<Group(20, "multiple", TRUE, <<Opt(1, 10000), Opt(2, 7500)>>),
                                 Group(21, "single", FALSE, <<Opt(5, 2500)>>)>>,
                    special |-> NoSpecial]
       [] i = 5 -> [base_price |-> 35000,
                    groups |-> <<Group(30, "multiple", TRUE, <<Opt(7, 3000)>>),
                                 Group(31, "single", FALSE, <<Opt(8, 1000)>>),
                                 Group(32, "single", TRUE, <<>>)>>,
                    special |-> NoSpecial]
       [] i = 6 -> [base_price |-> UndefinedNumber,
                    groups |-> <<Group(40, "single", FALSE, UndefinedArray),
                                 Group(41, "single", TRUE, <<Opt(60, UndefinedNumber), Opt(63, 1500)>>),
                                 Group(42, "multiple", FALSE, <<Opt(61, UndefinedNumber)>>)>>,
                    special |-> [price_delta |-> UndefinedNumber]]
       [] i = 7 -> [base_price |-> 15000, groups |-> UndefinedArray, special |-> NoSpecial]
       [] i = 8 -> [base_price |-> 45000,
                    groups |-> <<Group(50, "single", TRUE, <<Opt(80, 2000), Opt(81, 0)>>),
                                 Group(51, "multiple", TRUE, <<Opt(82, 500)>>)>>,
                    special |-> NoSpecial]
       [] i = 12 -> [base_price |-> 20000,
                     groups |-> <<Group(1, "multiple", FALSE, <<Opt(1, 0), Opt(11, 1000), Opt(111, 2000)>>),
                                  Group(11, "multiple", FALSE, <<Opt(2, 0), Opt(12, 500)>>),
                                  Group(2, "single", FALSE, <<Opt(3, 1500)>>)>>,
                     special |-> NoSpecial]]

MenuIds == DOMAIN menuConfigs

\* data-item-price of the menu card of item i
\* data-item-price of menu card i: the catalog price, no price where the
\* catalog has none, 12 for the card of an item the catalog does not have
CardPrice(i) == IF i \in DOMAIN menuConfigs THEN menuConfigs[i].base_price ELSE 12000

\* getMenuConfig(menuItemId)
getMenuConfig(menuItemId) ==
  IF menuItemId \notin DOMAIN menuConfigs
  THEN [groups |-> <<>>, special |-> NoSpecial]
  ELSE [groups |-> ArrayOrEmpty(menuConfigs[menuItemId].groups),
        special |-> menuConfigs[menuItemId].special]

(***************************************************************************)
(* Selections: Map groupId -> selection, as a sequence of entries          *)
(***************************************************************************)
\* position of the entry for groupId in a selections map, 0 if absent
SelIndex(selections, groupId) ==
  IF \E k \in 1..Len(selections) : selections[k].groupId = groupId
  THEN CHOOSE k \in 1..Len(selections) : selections[k].groupId = groupId
  ELSE 0

\* position of option id in a sequence of options, 0 if absent
OptIndex(options, id) ==
  IF \E k \in 1..Len(options) : options[k].id = id
  THEN CHOOSE k \in 1..Len(options) : options[k].id = id
  ELSE 0

\* sequence s without its k-th element
RemoveAt(s, k) == SubSeq(s, 1, k - 1) \o SubSeq(s, k + 1, Len(s))

\* initializeSelections whose default option carries no price
initializeSelections_DefaultUnpriced(groups) ==
  [k \in 1..Len(groups) |->
     IF groups[k].selection_type = "single"
     THEN [groupId |-> groups[k].id, type |-> "single",
           option |-> IF groups[k].is_required /\ Len(groups[k].options) > 0
                      THEN [groups[k].options[1] EXCEPT !.price = 0] ELSE NoOption,
           options |-> <<>>]
     ELSE [groupId |-> groups[k].id, type |-> "multiple",
           option |-> NoOption, options |-> <<>>]]

\* initializeSelections(groups): one entry per group, in group order; a
\* required single group with options starts on its first option
initializeSelections(groups) ==
  [k \in 1..Len(groups) |->
     IF groups[k].selection_type = "single"
     THEN [groupId |-> groups[k].id, type |-> "single",
           option |-> IF groups[k].is_required /\ Len(ArrayOrEmpty(groups[k].options)) > 0
                      THEN [id |-> ArrayOrEmpty(groups[k].options)[1].id,
                            price |-> NumberOrZero(ArrayOrEmpty(groups[k].options)[1].price)]
                      ELSE NoOption,
           options |-> <<>>]
     ELSE [groupId |-> groups[k].id, type |-> "multiple",
           option |-> NoOption, options |-> <<>>]]

\* the side effect of renderGroups(groups) on the selections: a required
\* single group that has no option selected gets its first option
renderGroups(groups, selections) ==
  [k \in 1..Len(selections) |->
     IF /\ selections[k].type = "single"
        /\ selections[k].option = NoOption
        /\ groups[k].is_required
        /\ Len(ArrayOrEmpty(groups[k].options)) > 0
     THEN [selections[k] EXCEPT !.option =
             [id |-> ArrayOrEmpty(groups[k].options)[1].id,
              price |-> NumberOrZero(ArrayOrEmpty(groups[k].options)[1].price)]]
     ELSE selections[k]]

\* getOptionData(groupId, optionId) on the groups of the open session
getOptionData(groups, groupId, optionId) ==
  LET gs == {k \in 1..Len(groups) : groups[k].id = groupId} IN
  IF gs = {} THEN NoOption
  ELSE LET g == groups[CHOOSE k \in gs : TRUE] IN
       IF OptIndex(g.options, optionId) = 0 THEN NoOption
       ELSE g.options[OptIndex(g.options, optionId)]

\* the change handler of groupsContainer applied to the selections: input of
\* group groupId for option optionId (0 is the "no selection" radio) whose
\* checked state after the event is checked
ChangeSelections(groups, selections, groupId, optionId, checked) ==
  LET k == SelIndex(selections, groupId) IN
  IF k = 0 THEN selections
  ELSE IF selections[k].type = "single"
  THEN IF optionId = 0
       THEN [selections EXCEPT ![k].option = NoOption]
       ELSE IF getOptionData(groups, groupId, optionId) # NoOption
            THEN [selections EXCEPT ![k].option =
                    [id |-> getOptionData(groups, groupId, optionId).id,
                     price |-> NumberOrZero(getOptionData(groups, groupId, optionId).price)]]
            ELSE selections
  ELSE IF checked
       THEN IF getOptionData(groups, groupId, optionId) # NoOption
            THEN LET optionData == getOptionData(groups, groupId, optionId)
                     o == [id |-> optionData.id, price |-> NumberOrZero(optionData.price)]
                     p == OptIndex(selections[k].options, optionId) IN
                 IF p = 0
                 THEN [selections EXCEPT ![k].options = Append(@, o)]
                 ELSE [selections EXCEPT ![k].options[p] = o]
            ELSE selections
       ELSE LET p == OptIndex(selections[k].options, optionId) IN
            IF p = 0 THEN selections
            ELSE [selections EXCEPT ![k].options = RemoveAt(@, p)]

(***************************************************************************)
(* Keys, prices, notes                                                     *)
(***************************************************************************)
\* buildItemKey(menuItemId, optionKey)
buildItemKey(menuItemId, optionKey) ==
  NumberToString(menuItemId) \o <<CharCode[":"], CharCode[":"]>> \o optionKey

\* OptionKeyPart with the option ids joined in insertion order (no sort)
OptionKeyPart_Unsorted(selection) ==
  IF selection.type = "single"
  THEN NumberToString(selection.groupId) \o <<CharCode[":"]>> \o
       (IF selection.option # NoOption
        THEN NumberToString(selection.option.id) ELSE StrNone)
  ELSE LET ids == [p \in 1..Len(selection.options) |->
                     NumberToString(selection.options[p].id)] IN
       NumberToString(selection.groupId) \o <<CharCode[":"]>> \o
       (IF Len(ids) > 0 THEN ArrayJoin(ids, <<CharCode["-"]>>) ELSE StrNone)

\* OptionKeyPart with the option ids joined without a separator
OptionKeyPart_NoSeparator(selection) ==
  IF selection.type = "single"
  THEN NumberToString(selection.groupId) \o <<CharCode[":"]>> \o
       (IF selection.option # NoOption
        THEN NumberToString(selection.option.id) ELSE StrNone)
  ELSE LET ids == ArraySort([p \in 1..Len(selection.options) |->
                               NumberToString(selection.options[p].id)]) IN
       NumberToString(selection.groupId) \o <<CharCode[":"]>> \o
       (IF Len(ids) > 0 THEN ArrayJoin(ids, <<>>) ELSE StrNone)

\* the fragment pushed for one selection by buildOptionKeyFromSelections
OptionKeyPart(selection) ==
  IF selection.type = "single"
  THEN NumberToString(selection.groupId) \o <<CharCode[":"]>> \o
       (IF selection.option # NoOption
        THEN NumberToString(selection.option.id) ELSE StrNone)
  ELSE LET ids == ArraySort([p \in 1..Len(selection.options) |->
                               NumberToString(selection.options[p].id)]) IN
       NumberToString(selection.groupId) \o <<CharCode[":"]>> \o
       (IF Len(ids) > 0 THEN ArrayJoin(ids, <<CharCode["-"]>>) ELSE StrNone)

\* buildOptionKeyFromSelections(selections)
buildOptionKeyFromSelections(selections) ==
  IF Len(selections) = 0 THEN StrBase
  ELSE LET parts == [k \in 1..Len(selections) |-> OptionKeyPart(selections[k])]
           joined == ArrayJoin(ArraySort(parts), <<CharCode["|"]>>) IN
       IF joined = <<>> THEN StrBase ELSE joined

\* the options total that keeps the price of the last checked option only
\* (total = price where the code has total += price)
SumPrices_LastOnly(options) ==
  IF options = <<>> THEN 0 ELSE options[Len(options)].price

\* sum of the prices of a sequence of options
RECURSIVE SumPrices(_)
SumPrices(options) ==
  IF options = <<>> THEN 0
  ELSE NumberOrZero(Head(options).price) + SumPrices(Tail(options))

\* the running total of calculateUnitPrice over the selections
RECURSIVE SelectionsPrice(_)
SelectionsPrice(selections) ==
  IF selections = <<>> THEN 0
  ELSE (IF Head(selections).type = "single"
        THEN (IF Head(selections).option # NoOption
              THEN NumberOrZero(Head(selections).option.price) ELSE 0)
        ELSE SumPrices(Head(selections).options))
       + SelectionsPrice(Tail(selections))

\* calculateUnitPrice(basePrice, selections)
calculateUnitPrice(basePrice, selections) ==
  ToFixed2(NumberOrZero(basePrice) + SelectionsPrice(selections))

\* buildSelectionNote(selections): one part per group that has a choice, the
\* options of a multiple group in the order they were checked.  Group and
\* option names are taken to be distinct, so a part is the group id with the
\* option ids; <<>> is the null note
buildSelectionNote(selections) ==
  LET RECURSIVE Parts(_)
      Parts(s) ==
        IF s = <<>> THEN <<>>
        ELSE (IF Head(s).type = "single"
              THEN (IF Head(s).option # NoOption
                    THEN <<[group |-> Head(s).groupId, labels |-> <<Head(s).option.id>>]>>
                    ELSE <<>>)
              ELSE (IF Len(Head(s).options) > 0
                    THEN <<[group |-> Head(s).groupId,
                            labels |-> [p \in 1..Len(Head(s).options) |-> Head(s).options[p].id]]>>
                    ELSE <<>>))
             \o Parts(Tail(s))
  IN Parts(selections)

\* buildSpecialNote(state): the special label with its price, <<>> for null
buildSpecialNote(state) ==
  IF state.specialInfo = NoSpecial \/ ~state.specialSelected THEN <<>>
  ELSE <<[special |-> formatCurrency(state.specialInfo.price)]>>

\* cloneSelectionState(selections): a deep copy
cloneSelectionState(selections) ==
  [k \in 1..Len(selections) |->
     IF selections[k].type = "single"
     THEN [groupId |-> selections[k].groupId, type |-> "single",
           option |-> selections[k].option, options |-> <<>>]
     ELSE [groupId |-> selections[k].groupId, type |-> "multiple",
           option |-> NoOption,
           options |-> [p \in 1..Len(selections[k].options) |-> selections[k].options[p]]]]

(***************************************************************************)
(* The cart                                                                *)
(***************************************************************************)
\* position of the entry for key in orderState-like map cart, 0 if absent
CartIndex(cart, key) ==
  IF \E k \in 1..Len(cart) : cart[k].key = key
  THEN CHOOSE k \in 1..Len(cart) : cart[k].key = key
  ELSE 0

\* sum of the quantities of the cart lines
RECURSIVE CartUnits(_)
CartUnits(cart) ==
  IF cart = <<>> THEN 0 ELSE Head(cart).quantity + CartUnits(Tail(cart))

\* upsertOrderItem that never looks the key up
upsertOrderItem_AlwaysInsert(cart, item) == Append(cart, item)

\* upsertOrderItem that deletes the merged entry and sets it again, which
\* moves it to the end of the map
upsertOrderItem_MoveToEnd(cart, item) ==
  LET k == CartIndex(cart, item.key) IN
  IF k # 0
  THEN Append(RemoveAt(cart, k), [cart[k] EXCEPT !.quantity = @ + item.quantity])
  ELSE Append(cart, item)

\* the map operations of upsertOrderItem(item): add the quantity to the line
\* of the same key, else set a new entry (appended)
upsertOrderItem(cart, item) ==
  LET k == CartIndex(cart, item.key) IN
  IF k # 0
  THEN [cart EXCEPT ![k].quantity = @ + item.quantity]
  ELSE Append(cart, item)

\* addSimpleItem that builds the key from an empty option key
addSimpleItem_EmptyOptionKey(menuItemId, basePrice, note) ==
  [key |-> buildItemKey(menuItemId, <<>>),
   menuItemId |-> menuItemId,
   unitPrice |-> basePrice,
   quantity |-> 1,
   note |-> note,
   selections |-> <<>>]

\* the line passed to upsertOrderItem by addSimpleItem(menuItemId, name, basePrice, note)
addSimpleItem(menuItemId, basePrice, note) ==
  [key |-> buildItemKey(menuItemId, StrBase),
   menuItemId |-> menuItemId,
   unitPrice |-> NumberOrZero(basePrice),
   quantity |-> 1,
   note |-> note,
   selections |-> <<>>]

\* addCustomizedItem that commits one unit whatever the session's quantity
addCustomizedItem_QuantityOne(state) ==
  [key |-> buildItemKey(state.menuItemId, buildOptionKeyFromSelections(state.selections)),
   menuItemId |-> state.menuItemId,
   unitPrice |-> state.currentUnitPrice,
   quantity |-> 1,
   note |-> buildSelectionNote(state.selections) \o buildSpecialNote(state),
   selections |-> cloneSelectionState(state.selections)]

\* the line passed to upsertOrderItem by addCustomizedItem(state);
\* state.currentUnitPrice is always set, so the ?? fallback is not taken
addCustomizedItem(state) ==
  [key |-> buildItemKey(state.menuItemId, buildOptionKeyFromSelections(state.selections)),
   menuItemId |-> state.menuItemId,
   unitPrice |-> state.currentUnitPrice,
   quantity |-> state.quantity,
   note |-> buildSelectionNote(state.selections) \o buildSpecialNote(state),
   selections |-> cloneSelectionState(state.selections)]

\* running total that adds each line's unit price once, whatever its quantity
RECURSIVE OrderTotal_UnitPricesOnly(_)
OrderTotal_UnitPricesOnly(cart) ==
  IF cart = <<>> THEN 0
  ELSE Head(cart).unitPrice + OrderTotal_UnitPricesOnly(Tail(cart))

\* the running total of renderOrder over the cart lines
RECURSIVE OrderTotal(_)
OrderTotal(cart) ==
  IF cart = <<>> THEN 0
  ELSE Head(cart).unitPrice * Head(cart).quantity + OrderTotal(Tail(cart))

\* renderOrder that leaves the submit button enabled
renderOrder_SubmitEnabled(cart) ==
  /\ orderTotalLabel' = formatCurrency(OrderTotal(cart))
  /\ submitDisabled' = FALSE

\* renderOrder(): the total label and the submit button follow the cart
renderOrder(cart) ==
  /\ orderTotalLabel' = formatCurrency(OrderTotal(cart))
  /\ submitDisabled' = (Len(cart) = 0)

\* updateQuantity that removes the line only below zero
updateQuantity_RemoveBelowZero(cart, itemKey, delta) ==
  LET k == CartIndex(cart, itemKey) IN
  IF k = 0 THEN cart
  ELSE IF cart[k].quantity + delta < 0 THEN RemoveAt(cart, k)
  ELSE [cart EXCEPT ![k].quantity = @ + delta]

\* the map operations of updateQuantity(itemKey, delta)
updateQuantity(cart, itemKey, delta) ==
  LET k == CartIndex(cart, itemKey) IN
  IF k = 0 THEN cart
  ELSE IF cart[k].quantity + delta <= 0 THEN RemoveAt(cart, k)
  ELSE [cart EXCEPT ![k].quantity = @ + delta]

(***************************************************************************)
(* The customization session                                               *)
(***************************************************************************)
\* updateModalSummary that forgets the special price
updateModalSummary_NoSpecial(state) ==
  [state EXCEPT !.currentUnitPrice =
     ToFixed2(calculateUnitPrice(state.basePrice, state.selections))]

\* updateModalSummary(): recompute currentUnitPrice of the session
updateModalSummary(state) ==
  LET unitPrice == calculateUnitPrice(state.basePrice, state.selections)
                   + (IF state.specialInfo # NoSpecial /\ state.specialSelected
                      THEN NumberOrZero(state.specialInfo.price) ELSE 0)
  IN [state EXCEPT !.currentUnitPrice = ToFixed2(unitPrice)]

\* the session built by openCustomization for an item that has groups or a
\* special option: initializeSelections, renderGroups, updateModalSummary
openCustomization(menuItemId, basePrice, config) ==
  updateModalSummary(
    [menuItemId |-> menuItemId,
     basePrice |-> NumberOrZero(basePrice),
     quantity |-> 1,
     groups |-> config.groups,
     selections |-> renderGroups(config.groups, initializeSelections(config.groups)),
     currentUnitPrice |-> NumberOrZero(basePrice),
     specialInfo |-> IF config.special # NoSpecial
                     THEN [price |-> NumberOrZero(config.special.price_delta)]
                     ELSE NoSpecial,
     specialSelected |-> FALSE])

\* validateSelections that checks the single groups only
validateSelections_SingleOnly(state) ==
  LET bad == {k \in 1..Len(state.selections) :
                /\ \E g \in 1..Len(state.groups) :
                     /\ state.groups[g].id = state.selections[k].groupId
                     /\ state.groups[g].is_required
                /\ state.selections[k].type = "single"
                /\ state.selections[k].option = NoOption}
  IN IF bad = {} THEN NoAlert
     ELSE LET k == CHOOSE m \in bad : \A n \in bad : m <= n IN
          [type |-> state.selections[k].type, group |-> state.selections[k].groupId]

\* validateSelections that keeps looping and reports the last unsatisfied group
validateSelections_LastGroup(state) ==
  LET bad == {k \in 1..Len(state.selections) :
                /\ \E g \in 1..Len(state.groups) :
                     /\ state.groups[g].id = state.selections[k].groupId
                     /\ state.groups[g].is_required
                /\ \/ state.selections[k].type = "single" /\ state.selections[k].option = NoOption
                   \/ state.selections[k].type = "multiple" /\ Len(state.selections[k].options) = 0}
  IN IF bad = {} THEN NoAlert
     ELSE LET k == CHOOSE m \in bad : \A n \in bad : m >= n IN
          [type |-> state.selections[k].type, group |-> state.selections[k].groupId]

\* validateSelections(): the first required group without a choice, as the
\* message naming it, or NoAlert
validateSelections(state) ==
  LET bad == {k \in 1..Len(state.selections) :
                /\ \E g \in 1..Len(state.groups) :
                     /\ state.groups[g].id = state.selections[k].groupId
                     /\ state.groups[g].is_required
                /\ \/ state.selections[k].type = "single" /\ state.selections[k].option = NoOption
                   \/ state.selections[k].type = "multiple" /\ Len(state.selections[k].options) = 0}
  IN IF bad = {} THEN NoAlert
     ELSE LET k == CHOOSE m \in bad : \A n \in bad : m <= n IN
          [type |-> state.selections[k].type, group |-> state.selections[k].groupId]

\* the inputs of a group when every single group gets the "no selection" radio
GroupInputs_NoneForAll(group) ==
  {ArrayOrEmpty(group.options)[p].id : p \in 1..Len(ArrayOrEmpty(group.options))}
    \cup (IF group.selection_type = "single" THEN {0} ELSE {})

\* the inputs renderGroups creates for a group: one per option, and the
\* "no selection" radio (0) for a single group that is not required
GroupInputs(group) ==
  {ArrayOrEmpty(group.options)[p].id : p \in 1..Len(ArrayOrEmpty(group.options))}
    \cup (IF group.selection_type = "single" /\ ~group.is_required THEN {0} ELSE {})

\* the option id of the checked radio of a single selection (0: none)
CheckedRadio(selection) ==
  IF selection.option = NoOption THEN 0 ELSE selection.option.id

CartFrame == UNCHANGED <<orderState, submitDisabled, orderTotalLabel>>
NetFrame == UNCHANGED <<orderStatusMessage, noteField, inflight>>
KeyFrame == UNCHANGED <<keyA, keyB>>
GameFrame == UNCHANGED gameVars
\* what a handler of the order page leaves alone: the other pages
BillingFrame == UNCHANGED billingVars
KitchenFrame == UNCHANGED kitchenVars
TrackingFrame == UNCHANGED trackingVars
OffPageFrame == GameFrame /\ BillingFrame /\ KitchenFrame /\ TrackingFrame
DomFrame == UNCHANGED specialToggleChecked

\* resetSpecialSection that leaves the checkbox as it is
resetSpecialSection_KeepsChecked == specialToggleChecked

\* specialToggle.checked as resetSpecialSection() leaves it
resetSpecialSection == FALSE

\* specialToggle.checked as updateSpecialSection() leaves it for a session
updateSpecialSection(state) ==
  IF state.specialInfo # NoSpecial THEN state.specialSelected ELSE resetSpecialSection

\* click on the add button of menu card i (handler of [data-action="add"]);
\* the page is behind the modal backdrop while a session is open
AddClickWithin(i, limit) ==
  /\ modalState = NoModal
  /\ LET config == getMenuConfig(i) IN
     IF Len(config.groups) > 0 \/ config.special # NoSpecial
     THEN /\ modalState' = openCustomization(i, CardPrice(i), config)
          /\ specialToggleChecked' = updateSpecialSection(modalState')
          /\ CartFrame
     ELSE /\ CartUnits(orderState) < limit
          /\ orderState' = upsertOrderItem(orderState, addSimpleItem(i, CardPrice(i), <<>>))
          /\ renderOrder(orderState')
          /\ UNCHANGED modalState
          /\ DomFrame
  /\ alertMsg' = NoAlert
  /\ NetFrame /\ KeyFrame /\ OffPageFrame

\* the add click while the cart holds fewer than MaxCartUnits units
AddClick(i) == AddClickWithin(i, MaxCartUnits)

\* change event of the input of option o (0: "no selection") in group g: a
\* radio fires it when it becomes checked, a checkbox on every toggle
OptionChange(g, o) ==
  /\ modalState # NoModal
  /\ \E k \in 1..Len(modalState.groups) :
       /\ modalState.groups[k].id = g
       /\ o \in GroupInputs(modalState.groups[k])
       /\ LET sel == modalState.selections[SelIndex(modalState.selections, g)]
              checked == IF sel.type = "single" THEN TRUE
                         ELSE OptIndex(sel.options, o) = 0
          IN /\ sel.type = "single" => o # CheckedRadio(sel)
             /\ modalState' = updateModalSummary(
                  [modalState EXCEPT !.selections =
                     ChangeSelections(modalState.groups, modalState.selections, g, o, checked)])
  /\ alertMsg' = NoAlert
  /\ CartFrame /\ NetFrame /\ KeyFrame /\ OffPageFrame /\ DomFrame

\* the special toggle handler that also builds the selections anew
SpecialToggleChange_ResetsSelections ==
  /\ modalState # NoModal
  /\ IF modalState.specialInfo = NoSpecial
     THEN /\ specialToggleChecked' = FALSE
          /\ UNCHANGED modalState
     ELSE /\ specialToggleChecked' = ~specialToggleChecked
          /\ modalState' = updateModalSummary(
               [modalState EXCEPT !.specialSelected = specialToggleChecked',
                                  !.selections = renderGroups(modalState.groups,
                                                   initializeSelections(modalState.groups))])
  /\ alertMsg' = NoAlert
  /\ CartFrame /\ NetFrame /\ KeyFrame /\ OffPageFrame

\* change event of specialToggle: the user has flipped the checkbox, the
\* handler takes the session's flag from it
SpecialToggleChange ==
  /\ modalState # NoModal
  /\ IF modalState.specialInfo = NoSpecial
     THEN /\ specialToggleChecked' = FALSE
          /\ UNCHANGED modalState
     ELSE /\ specialToggleChecked' = ~specialToggleChecked
          /\ modalState' = updateModalSummary(
               [modalState EXCEPT !.specialSelected = specialToggleChecked'])
  /\ alertMsg' = NoAlert
  /\ CartFrame /\ NetFrame /\ KeyFrame /\ OffPageFrame

\* adjustModalQuantity that lets the quantity go down to zero
adjustModalQuantity_FloorZero(delta) ==
  /\ modalState # NoModal
  /\ modalState.quantity + delta <= MaxModalQuantity
  /\ modalState' = updateModalSummary(
       [modalState EXCEPT !.quantity = IF @ + delta < 0 THEN 0 ELSE @ + delta])
  /\ alertMsg' = NoAlert
  /\ CartFrame /\ NetFrame /\ KeyFrame /\ OffPageFrame /\ DomFrame

\* adjustModalQuantity(delta), from the decrease and increase buttons
adjustModalQuantity(delta) ==
  /\ modalState # NoModal
  /\ modalState.quantity + delta <= MaxModalQuantity
  /\ modalState' = updateModalSummary(
       [modalState EXCEPT !.quantity = IF @ + delta < 1 THEN 1 ELSE @ + delta])
  /\ alertMsg' = NoAlert
  /\ CartFrame /\ NetFrame /\ KeyFrame /\ OffPageFrame /\ DomFrame

\* click on addBtn: validate, then addCustomizedItem and closeCustomization
ConfirmClickWithin(limit) ==
  /\ modalState # NoModal
  /\ IF validateSelections(modalState) # NoAlert
     THEN /\ alertMsg' = validateSelections(modalState)
          /\ UNCHANGED modalState
          /\ CartFrame /\ DomFrame
     ELSE /\ CartUnits(orderState) + modalState.quantity <= limit
          /\ orderState' = upsertOrderItem(orderState, addCustomizedItem(modalState))
          /\ renderOrder(orderState')
          /\ modalState' = NoModal
          /\ specialToggleChecked' = resetSpecialSection
          /\ alertMsg' = NoAlert
  /\ NetFrame /\ KeyFrame /\ OffPageFrame

\* the confirm click while the cart has room for the session's quantity
ConfirmClick == ConfirmClickWithin(MaxCartUnits)

\* closeCustomization(), from the cancel button, the close button or the backdrop
closeCustomization ==
  /\ modalState # NoModal
  /\ modalState' = NoModal
  /\ specialToggleChecked' = resetSpecialSection
  /\ alertMsg' = NoAlert
  /\ CartFrame /\ NetFrame /\ KeyFrame /\ OffPageFrame

\* click on the decrease or increase button of the cart line at position k
QuantityClickWithin(k, delta, limit) ==
  /\ modalState = NoModal
  /\ k \in 1..Len(orderState)
  /\ CartUnits(orderState) + delta <= limit
  /\ orderState' = updateQuantity(orderState, orderState[k].key, delta)
  /\ renderOrder(orderState')
  /\ alertMsg' = NoAlert
  /\ UNCHANGED modalState
  /\ NetFrame /\ KeyFrame /\ OffPageFrame /\ DomFrame

\* the quantity click while the cart stays within MaxCartUnits units
QuantityClick(k, delta) == QuantityClickWithin(k, delta, MaxCartUnits)

(***************************************************************************)
(* Order submission                                                        *)
(***************************************************************************)

\* the values typed into noteField: nothing, a note, a note after a blank
NoteValues == {"", "n", " n"}

\* String.prototype.trim on those values
trim(v) == IF v = " n" THEN "n" ELSE v

\* the request body that sends one unit of every line
RequestBody_OneOfEach(cart, note) ==
  [items |-> [k \in 1..Len(cart) |->
                [menu_item_id |-> cart[k].menuItemId,
                 quantity |-> 1,
                 note |-> cart[k].note,
                 unit_price |-> ToFixed2(cart[k].unitPrice)]],
   note |-> trim(note)]

\* itemsPayload of submitOrder with the note of the request body; the empty
\* string stands for null
RequestBody(cart, note) ==
  [items |-> [k \in 1..Len(cart) |->
                [menu_item_id |-> cart[k].menuItemId,
                 quantity |-> cart[k].quantity,
                 note |-> cart[k].note,
                 unit_price |-> ToFixed2(cart[k].unitPrice)]],
   note |-> trim(note)]

\* click on submitBtn: submitOrder() up to its first await.  A disabled
\* button dispatches no click.  The invocation stays suspended in phase
\* "fetch" until the response and its body have arrived.
SubmitClick ==
  /\ modalState = NoModal
  /\ ~submitDisabled
  /\ BagCardinality(inflight) < MaxInflight
  /\ inflight' = inflight (+) SetToBag({[phase |-> "fetch",
                                         body |-> RequestBody(orderState, noteField)]})
  /\ submitDisabled' = TRUE
  /\ orderStatusMessage' = "sending"
  /\ alertMsg' = NoAlert
  /\ UNCHANGED <<orderState, modalState, orderTotalLabel, noteField>>
  /\ KeyFrame /\ OffPageFrame /\ DomFrame

\* SubmitSuccess that keeps the order-level note
SubmitSuccess_KeepsNote(inv) ==
  /\ inv \in BagToSet(inflight)
  /\ inv.phase = "fetch"
  /\ orderState' = <<>>
  /\ renderOrder(orderState')
  /\ orderStatusMessage' = "success"
  /\ inflight' = (inflight (-) SetToBag({inv}))
                   (+) SetToBag({[phase |-> "active", body |-> <<>>]})
  /\ alertMsg' = NoAlert
  /\ UNCHANGED <<modalState, noteField>>
  /\ KeyFrame /\ OffPageFrame /\ DomFrame

\* submitOrder() resumed with an OK response whose JSON body was read: the
\* cart is cleared and rendered, the note reset, and the invocation suspends
\* again on fetchActiveOrders()
SubmitSuccess(inv) ==
  /\ inv \in BagToSet(inflight)
  /\ inv.phase = "fetch"
  /\ orderState' = <<>>
  /\ renderOrder(orderState')
  /\ noteField' = ""
  /\ orderStatusMessage' = "success"
  /\ inflight' = (inflight (-) SetToBag({inv}))
                   (+) SetToBag({[phase |-> "active", body |-> <<>>]})
  /\ alertMsg' = NoAlert
  /\ UNCHANGED modalState
  /\ KeyFrame /\ OffPageFrame /\ DomFrame

\* SubmitFailure without the finally block
SubmitFailure_NoFinally(inv) ==
  /\ inv \in BagToSet(inflight)
  /\ inv.phase = "fetch"
  /\ orderStatusMessage' = "error"
  /\ inflight' = inflight (-) SetToBag({inv})
  /\ alertMsg' = NoAlert
  /\ UNCHANGED <<orderState, modalState, orderTotalLabel, noteField, submitDisabled>>
  /\ KeyFrame /\ OffPageFrame /\ DomFrame

\* SubmitFailure that clears the cart as the success path does
SubmitFailure_Clears(inv) ==
  /\ inv \in BagToSet(inflight)
  /\ inv.phase = "fetch"
  /\ orderStatusMessage' = "error"
  /\ orderState' = <<>>
  /\ renderOrder(orderState')
  /\ inflight' = inflight (-) SetToBag({inv})
  /\ alertMsg' = NoAlert
  /\ UNCHANGED <<modalState, noteField>>
  /\ KeyFrame /\ OffPageFrame /\ DomFrame

\* submitOrder() resumed with a rejected fetch, a non-OK response or an
\* unreadable body: catch, then finally
SubmitFailure(inv) ==
  /\ inv \in BagToSet(inflight)
  /\ inv.phase = "fetch"
  /\ orderStatusMessage' = "error"
  /\ submitDisabled' = (Len(orderState) = 0)
  /\ inflight' = inflight (-) SetToBag({inv})
  /\ alertMsg' = NoAlert
  /\ UNCHANGED <<orderState, modalState, orderTotalLabel, noteField>>
  /\ KeyFrame /\ OffPageFrame /\ DomFrame

\* submitOrder() resumed after fetchActiveOrders() has settled: finally
SubmitFinally(inv) ==
  /\ inv \in BagToSet(inflight)
  /\ inv.phase = "active"
  /\ submitDisabled' = (Len(orderState) = 0)
  /\ inflight' = inflight (-) SetToBag({inv})
  /\ alertMsg' = NoAlert
  /\ UNCHANGED <<orderState, modalState, orderTotalLabel, orderStatusMessage, noteField>>
  /\ KeyFrame /\ OffPageFrame /\ DomFrame

\* the user edits the order-level note
NoteInput(v) ==
  /\ modalState = NoModal
  /\ v # noteField
  /\ noteField' = v
  /\ alertMsg' = NoAlert
  /\ UNCHANGED <<orderState, modalState, submitDisabled, orderTotalLabel,
                 orderStatusMessage, inflight>>
  /\ KeyFrame /\ OffPageFrame /\ DomFrame

(***************************************************************************)
(* Two selection states side by side, for the properties of the keys       *)
(***************************************************************************)
\* a selection state of item i as openCustomization leaves it
OpenedSelections(i) ==
  [item |-> i,
   selections |-> renderGroups(getMenuConfig(i).groups,
                               initializeSelections(getMenuConfig(i).groups))]

\* the change events that can reach the selections ks of an open session
KeyChange(ks, g, o) ==
  LET groups == getMenuConfig(ks.item).groups IN
  /\ \E k \in 1..Len(groups) :
       /\ groups[k].id = g
       /\ o \in GroupInputs(groups[k])
       /\ ks.selections[SelIndex(ks.selections, g)].type = "single"
            => o # CheckedRadio(ks.selections[SelIndex(ks.selections, g)])

KeyChanged(ks, g, o) ==
  LET groups == getMenuConfig(ks.item).groups
      sel == ks.selections[SelIndex(ks.selections, g)]
  IN [ks EXCEPT !.selections =
        ChangeSelections(groups, ks.selections, g, o,
                         IF sel.type = "single" THEN TRUE ELSE OptIndex(sel.options, o) = 0)]

AllFrame == UNCHANGED <<orderState, modalState, submitDisabled, orderTotalLabel,
                        orderStatusMessage, noteField, inflight, alertMsg,
                        specialToggleChecked>>

KeyChangeA(g, o) ==
  /\ keyA # <<>>
  /\ KeyChange(keyA, g, o)
  /\ keyA' = KeyChanged(keyA, g, o)
  /\ UNCHANGED keyB
  /\ AllFrame /\ OffPageFrame

KeyChangeB(g, o) ==
  /\ keyB # <<>>
  /\ KeyChange(keyB, g, o)
  /\ keyB' = KeyChanged(keyB, g, o)
  /\ UNCHANGED keyA
  /\ AllFrame /\ OffPageFrame

\* the cart key addCustomizedItem (or addSimpleItem, for an item without
\* groups) gives a selection state
KeyOf(ks) == buildItemKey(ks.item, buildOptionKeyFromSelections(ks.selections))

(***************************************************************************)
(* Minigame                                                                *)
(***************************************************************************)
GAME_DURATION == 30
TARGET_JUICE == 100

NoResult == [visible |-> FALSE, success |-> "none"]

\* every handler of the other pages leaves the minigame alone, and the
\* minigame leaves them alone
OrderPageFrame == AllFrame /\ KeyFrame /\ TrackingFrame
NotGameFrame == OrderPageFrame /\ BillingFrame /\ KitchenFrame

\* the text of the result banner: empty, "Progress: <percent>%", the
\* success text or the timeout ("Game Over") text
BannerText(text, percent) == [text |-> text, percent |-> percent]

\* Math.round((count / TARGET_JUICE) * 100)
Percent(count) == (count * 200 + TARGET_JUICE) \div (2 * TARGET_JUICE)

\* the text updateResultBanner(success, timeout) sets while squeezeCount is count
updateResultBanner(count, success, timeout) ==
  IF success THEN BannerText("success", 0)
  ELSE IF timeout THEN BannerText("timeout", 0)
  ELSE BannerText("progress", Percent(count))

\* !x of a number x, as the number a comparison converts it to
NotAsNumber(x) == IF x = 0 THEN 1 ELSE 0

\* LemonScene.create: the fields of a fresh scene
create ==
  /\ timeLeft' = GAME_DURATION
  /\ squeezeCount' = 0
  /\ isPlaying' = FALSE
  /\ gameOver' = FALSE
  /\ scenePaused' = FALSE
  /\ reports' = 0
  /\ resultBanner' = BannerText("", 0)

InitGame ==
  /\ timeLeft = GAME_DURATION
  /\ squeezeCount = 0
  /\ isPlaying = FALSE
  /\ gameOver = FALSE
  /\ scenePaused = FALSE
  /\ reports = 0
  /\ resultOverlay = NoResult
  /\ resultBanner = BannerText("", 0)

\* LemonGame.showResult: what the overlay shows afterwards
showResult(success) == [visible |-> TRUE, success |-> IF success THEN "true" ELSE "false"]

\* endGame(success), called by a handler that leaves isPlaying at `playing'
endGame(success, playing) ==
  IF gameOver
    THEN /\ isPlaying' = playing
         /\ UNCHANGED <<gameOver, scenePaused, resultOverlay, reports>>
    ELSE /\ gameOver' = TRUE
         /\ isPlaying' = FALSE
         /\ scenePaused' = TRUE
         /\ resultOverlay' = showResult(success)
         /\ reports' = reports + 1

Min(a, b) == IF a <= b THEN a ELSE b

\* handleSqueeze(pointer): a pointerdown on the lime; isDown is pointer.isDown,
\* inside tells whether the pointer is within the circle of the fruit.  A
\* paused scene receives no input.
handleSqueeze(isDown, inside) ==
  /\ ~scenePaused
  /\ IF timeLeft <= 0 \/ ~isDown \/ ~inside
       THEN /\ isPlaying' = TRUE
            /\ UNCHANGED <<timeLeft, squeezeCount, gameOver, scenePaused,
                           resultOverlay, reports, resultBanner>>
       ELSE /\ squeezeCount' = Min(squeezeCount + 1, TARGET_JUICE)
            /\ UNCHANGED timeLeft
            /\ IF squeezeCount' >= TARGET_JUICE
                 THEN /\ resultBanner' = updateResultBanner(squeezeCount', TRUE, FALSE)
                      /\ endGame(TRUE, TRUE)
                 ELSE /\ resultBanner' = updateResultBanner(squeezeCount', FALSE, FALSE)
                      /\ isPlaying' = TRUE
                      /\ UNCHANGED <<gameOver, scenePaused, resultOverlay, reports>>
  /\ NotGameFrame

\* updateTimer: the looping one-second event of the scene; the clock of a
\* paused scene stands still
updateTimer_Unstarted ==
  /\ ~scenePaused
  /\ timeLeft' = timeLeft - 1
  /\ UNCHANGED squeezeCount
  /\ IF timeLeft' <= 0
       THEN /\ resultBanner' = IF NotAsNumber(squeezeCount) >= TARGET_JUICE
                                THEN updateResultBanner(squeezeCount, FALSE, TRUE)
                                ELSE resultBanner
            /\ endGame(squeezeCount >= TARGET_JUICE, isPlaying)
       ELSE UNCHANGED <<isPlaying, gameOver, scenePaused, resultOverlay, reports,
                        resultBanner>>
  /\ NotGameFrame

updateTimer ==
  /\ ~scenePaused
  /\ IF ~isPlaying
       THEN UNCHANGED gameVars
       ELSE /\ timeLeft' = timeLeft - 1
            /\ UNCHANGED squeezeCount
            /\ IF timeLeft' <= 0
                 THEN /\ resultBanner' = IF NotAsNumber(squeezeCount) >= TARGET_JUICE
                                          THEN updateResultBanner(squeezeCount, FALSE, TRUE)
                                          ELSE resultBanner
                      /\ endGame(squeezeCount >= TARGET_JUICE, isPlaying)
                 ELSE UNCHANGED <<isPlaying, gameOver, scenePaused, resultOverlay,
                                  reports, resultBanner>>
  /\ NotGameFrame

\* launchGame, from the retry button of the result overlay: the overlay is
\* hidden and a new game with a fresh scene replaces the finished one
launchGame ==
  /\ resultOverlay.visible
  /\ resultOverlay' = [resultOverlay EXCEPT !.visible = FALSE]
  /\ create
  /\ NotGameFrame

(***************************************************************************)
(* Billing page                                                            *)
(***************************************************************************)
\* the billing rows of the page, in document order: data-order-id and
\* data-balance (satang)
rows == <<[orderId |-> 11, balance |-> 15000],
          [orderId |-> 12, balance |-> 0],
          [orderId |-> 13, balance |-> 8000]>>

\* pageConfig.promptpayReady of a table whose PromptPay target is set up
promptpayReady == TRUE

\* no alert() was raised by the last handler of the billing page or of the
\* dashboard
Quiet == ""
NoSrc == <<0>>
NotBillingFrame == OrderPageFrame /\ GameFrame /\ KitchenFrame

RECURSIVE SelectionIds(_, _)
SelectionIds(k, boxes) ==
  IF k > Len(rows) THEN <<>>
  ELSE (IF k \in boxes THEN <<rows[k].orderId>> ELSE <<>>) \o SelectionIds(k + 1, boxes)

RECURSIVE SelectionTotal(_, _)
SelectionTotal(k, boxes) ==
  IF k > Len(rows) THEN 0
  ELSE (IF k \in boxes THEN rows[k].balance ELSE 0) + SelectionTotal(k + 1, boxes)

\* getSelection() over the checkboxes `boxes'; balances are whole satang, so
\* rounding the total to two decimals keeps it
getSelection(boxes) ==
  [ids |-> SelectionIds(1, boxes),
   total |-> ToFixed2(SelectionTotal(1, boxes) * 10) \div 10,
   count |-> Len(SelectionIds(1, boxes))]

\* updateSummary that leaves the hidden field as it is
updateSummary_StaleHidden(boxes) ==
  LET selection == getSelection(boxes) IN
  /\ summaryBox' = [count |-> selection.count, total |-> selection.total]
  /\ UNCHANGED hiddenInput
  /\ confirmBtnDisabled' = (selection.count = 0)
  /\ generateBtnDisabled' = (~promptpayReady \/ selection.count = 0)
  /\ qrPreviewHidden' = TRUE
  /\ qrImageSrc' = NoSrc

\* updateSummary() with the checkboxes `boxes'
updateSummary(boxes) ==
  LET selection == getSelection(boxes) IN
  /\ summaryBox' = [count |-> selection.count, total |-> selection.total]
  /\ hiddenInput' = selection.ids
  /\ confirmBtnDisabled' = (selection.count = 0)
  /\ generateBtnDisabled' = (~promptpayReady \/ selection.count = 0)
  /\ qrPreviewHidden' = TRUE
  /\ qrImageSrc' = NoSrc

\* the page after load: nothing checked, updateSummary() has run
InitBilling ==
  /\ checkedRows = {}
  /\ summaryBox = [count |-> 0, total |-> 0]
  /\ hiddenInput = <<>>
  /\ confirmBtnDisabled = TRUE
  /\ generateBtnDisabled = TRUE
  /\ qrPreviewHidden = TRUE
  /\ qrImageSrc = NoSrc
  /\ qrInflight = EmptyBag
  /\ billingAlert = Quiet
  /\ settleSubmitted = FALSE

\* change of the checkbox of row k
CheckboxChange(k) ==
  /\ ~settleSubmitted
  /\ checkedRows' = IF k \in checkedRows THEN checkedRows \ {k} ELSE checkedRows \cup {k}
  /\ updateSummary(checkedRows')
  /\ billingAlert' = Quiet
  /\ UNCHANGED qrInflight
  /\ UNCHANGED settleSubmitted
  /\ NotBillingFrame

\* click on clearBtn
clearSelection ==
  /\ ~settleSubmitted
  /\ checkedRows' = {}
  /\ updateSummary(checkedRows')
  /\ billingAlert' = Quiet
  /\ UNCHANGED qrInflight
  /\ UNCHANGED settleSubmitted
  /\ NotBillingFrame

\* click on generateBtn: generateQr() up to its await.  A disabled button
\* dispatches no click.
GenerateClick ==
  /\ ~settleSubmitted
  /\ ~generateBtnDisabled
  /\ LET selection == getSelection(checkedRows) IN
     IF selection.count = 0
       THEN /\ billingAlert' = "select"
            /\ UNCHANGED <<generateBtnDisabled, qrInflight>>
     ELSE IF selection.total <= 0
       THEN /\ billingAlert' = "nothing due"
            /\ UNCHANGED <<generateBtnDisabled, qrInflight>>
     ELSE /\ BagCardinality(qrInflight) < MaxQrRequests
          /\ generateBtnDisabled' = TRUE
          /\ qrInflight' = qrInflight (+) SetToBag({[order_ids |-> selection.ids]})
          /\ billingAlert' = Quiet
  /\ UNCHANGED <<checkedRows, summaryBox, hiddenInput, confirmBtnDisabled,
                 qrPreviewHidden, qrImageSrc>>
  /\ UNCHANGED settleSubmitted
  /\ NotBillingFrame

\* generateQr() resumed with an OK response carrying the image the server
\* made for the order ids of the request; then the finally block
QrResponse(req) ==
  /\ ~settleSubmitted
  /\ req \in BagToSet(qrInflight)
  /\ qrInflight' = qrInflight (-) SetToBag({req})
  /\ qrImageSrc' = req.order_ids
  /\ qrPreviewHidden' = FALSE
  /\ generateBtnDisabled' = (~promptpayReady \/ getSelection(checkedRows).count = 0)
  /\ billingAlert' = Quiet
  /\ UNCHANGED <<checkedRows, summaryBox, hiddenInput, confirmBtnDisabled>>
  /\ UNCHANGED settleSubmitted
  /\ NotBillingFrame

\* generateQr() resumed with a failed request or a response without an
\* image: the error is alerted; then the finally block
QrFailure(req) ==
  /\ ~settleSubmitted
  /\ req \in BagToSet(qrInflight)
  /\ qrInflight' = qrInflight (-) SetToBag({req})
  /\ billingAlert' = "error"
  /\ generateBtnDisabled' = (~promptpayReady \/ getSelection(checkedRows).count = 0)
  /\ UNCHANGED <<checkedRows, summaryBox, hiddenInput, confirmBtnDisabled,
                 qrPreviewHidden, qrImageSrc>>
  /\ UNCHANGED settleSubmitted
  /\ NotBillingFrame

\* submit of settleForm: with an empty hidden field the submission is
\* prevented and the user alerted; otherwise the form is sent and the page
\* is left
handleSubmit ==
  /\ ~settleSubmitted
  /\ IF hiddenInput = <<>>
     THEN /\ billingAlert' = "select"
          /\ UNCHANGED settleSubmitted
     ELSE /\ billingAlert' = Quiet
          /\ settleSubmitted' = TRUE
  /\ UNCHANGED <<checkedRows, summaryBox, hiddenInput, confirmBtnDisabled,
                 generateBtnDisabled, qrPreviewHidden, qrImageSrc, qrInflight>>
  /\ NotBillingFrame

(***************************************************************************)
(* Kitchen dashboard                                                       *)
(***************************************************************************)
\* the orders the server knows of and what is still due on each (satang)
OrderIds == {1, 2}
BalanceDue == [id \in OrderIds |-> IF id = 1 THEN 0 ELSE 12000]

\* the statuses the cook chooses in a selector
StatusChoices == {"in_progress", "paid"}

NotKitchenFrame == OrderPageFrame /\ GameFrame /\ BillingFrame

\* toAmount(value): a number that is not finite counts as 0
toAmount(value) == IF value = UndefinedNumber THEN 0 ELSE value

\* the body of GET /api/orders/pending: the orders placed and not yet paid
RECURSIVE PendingFrom(_, _)
PendingFrom(id, server) ==
  IF id \notin OrderIds THEN <<>>
  ELSE (IF server[id] \in {"none", "paid"} THEN <<>>
        ELSE <<[id |-> id, status |-> server[id], balance_due |-> BalanceDue[id]]>>)
       \o PendingFrom(id + 1, server)

PendingOrders(server) == PendingFrom(1, server)

ListIds(orders) == {orders[k].id : k \in 1..Len(orders)}
CardIndex(cards, id) ==
  IF \E k \in 1..Len(cards) : cards[k].id = id
    THEN CHOOSE k \in 1..Len(cards) : cards[k].id = id
    ELSE 0

\* buildOrderCard(order, highlight): the status label, the selector with its
\* data-previous and data-paid-disabled; bound tells whether
\* bindStatusHandlers has attached the listeners
buildOrderCard(order) ==
  [id |-> order.id,
   status |-> order.status,
   value |-> order.status,
   previous |-> order.status,
   paidDisabled |-> toAmount(order.balance_due) > 0,
   bound |-> TRUE]

Max(a, b) == IF a >= b THEN a ELSE b

\* playNotification(times): the number of tones scheduled
playNotification(times) == Min(Max(times, 1), 3)

\* renderOrders(orders)
renderOrders(orders) ==
  IF Len(orders) = 0
    THEN /\ ordersContainer' = <<>>
         /\ currentOrderIds' = {}
         /\ beeps' = 0
         /\ UNCHANGED audioContext
    ELSE LET newOrderIds == ListIds(orders) \ currentOrderIds IN
         /\ ordersContainer' = [k \in 1..Len(orders) |-> buildOrderCard(orders[k])]
         /\ currentOrderIds' = ListIds(orders)
         /\ IF newOrderIds # {}
              THEN /\ beeps' = playNotification(Cardinality(newOrderIds))
                   /\ audioContext' = TRUE
              ELSE /\ beeps' = 0
                   /\ UNCHANGED audioContext

\* the orders embedded in the page
initialOrders == <<[id |-> 2, status |-> "pending", balance_due |-> BalanceDue[2]]>>

\* the dashboard after load: the cards of the embedded orders as the page
\* template rendered them (no listeners yet), and the first fetchOrders()
\* awaiting its response
InitKitchen ==
  /\ serverOrders = [id \in OrderIds |-> IF id \in ListIds(initialOrders) THEN "pending" ELSE "none"]
  /\ currentOrderIds = ListIds(initialOrders)
  /\ ordersContainer = [k \in 1..Len(initialOrders) |->
                          [buildOrderCard(initialOrders[k]) EXCEPT !.bound = FALSE]]
  /\ fetchInflight = <<[answered |-> FALSE, orders |-> <<>>, superseded |-> FALSE]>>
  /\ statusInflight = <<>>
  /\ beeps = 0
  /\ audioContext = FALSE
  /\ kitchenAlert = Quiet
  /\ renderedStale = FALSE
  /\ announced = {}

\* a customer places order id
NewOrder(id) ==
  /\ serverOrders[id] = "none"
  /\ serverOrders' = [serverOrders EXCEPT ![id] = "pending"]
  /\ beeps' = 0
  /\ kitchenAlert' = Quiet
  /\ UNCHANGED <<currentOrderIds, ordersContainer, fetchInflight, statusInflight,
                 audioContext>>
  /\ renderedStale' = FALSE
  /\ UNCHANGED announced
  /\ NotKitchenFrame

\* fetchOrders() up to its await
fetchOrders(pending) ==
  fetchInflight' = Append(pending, [answered |-> FALSE, orders |-> <<>>,
                                    superseded |-> FALSE])

\* the five-second interval fires
Poll ==
  /\ Len(fetchInflight) + Len(statusInflight) < MaxRequests
  /\ fetchOrders(fetchInflight)
  /\ beeps' = 0
  /\ kitchenAlert' = Quiet
  /\ UNCHANGED <<serverOrders, currentOrderIds, ordersContainer, statusInflight,
                 audioContext>>
  /\ renderedStale' = FALSE
  /\ UNCHANGED announced
  /\ NotKitchenFrame

\* the server answers the k-th pending-orders request with its list of now
FetchAnswer(k) ==
  /\ k \in 1..Len(fetchInflight)
  /\ ~fetchInflight[k].answered
  /\ fetchInflight' = [fetchInflight EXCEPT ![k].answered = TRUE,
                                            ![k].orders = PendingOrders(serverOrders)]
  /\ beeps' = 0
  /\ kitchenAlert' = Quiet
  /\ UNCHANGED <<serverOrders, currentOrderIds, ordersContainer, statusInflight,
                 audioContext>>
  /\ renderedStale' = FALSE
  /\ UNCHANGED announced
  /\ NotKitchenFrame

\* the requests still awaited once the k-th was rendered: those issued before
\* it are from now on older than a rendered one
AfterRender(pending, k) ==
  [m \in 1..(Len(pending) - 1) |->
     IF m < k THEN [pending[m] EXCEPT !.superseded = TRUE] ELSE pending[m + 1]]

\* the selectors of the requests in `calls' are no longer in the document:
\* what such a selector holds shows nowhere, and is forgotten
Detached(calls) ==
  [m \in 1..Len(calls) |-> [calls[m] EXCEPT !.attached = FALSE, !.previous = ""]]

\* fetchOrders() resumed with the answer to its request: the list is rendered
\* and every card of the container replaced
FetchRender(k) ==
  /\ k \in 1..Len(fetchInflight)
  /\ fetchInflight[k].answered
  /\ renderOrders(fetchInflight[k].orders)
  /\ renderedStale' = fetchInflight[k].superseded
  /\ announced' = (announced \cap ListIds(fetchInflight[k].orders))
                    \cup (ListIds(fetchInflight[k].orders) \ currentOrderIds)
  /\ fetchInflight' = AfterRender(fetchInflight, k)
  /\ statusInflight' = Detached(statusInflight)
  /\ kitchenAlert' = Quiet
  /\ UNCHANGED serverOrders
  /\ NotKitchenFrame

\* fetchOrders() resumed with a failed request: the error is logged
FetchFailure(k) ==
  /\ k \in 1..Len(fetchInflight)
  /\ ~fetchInflight[k].answered
  /\ fetchInflight' = RemoveAt(fetchInflight, k)
  /\ beeps' = 0
  /\ kitchenAlert' = Quiet
  /\ UNCHANGED <<serverOrders, currentOrderIds, ordersContainer, statusInflight,
                 audioContext>>
  /\ renderedStale' = FALSE
  /\ UNCHANGED announced
  /\ NotKitchenFrame

\* focus on the selector of the k-th card
SelectFocus(k) ==
  /\ k \in 1..Len(ordersContainer)
  /\ ordersContainer[k].bound
  /\ ordersContainer' = [ordersContainer EXCEPT ![k].previous = ordersContainer[k].value]
  /\ beeps' = 0
  /\ kitchenAlert' = Quiet
  /\ UNCHANGED <<serverOrders, currentOrderIds, fetchInflight, statusInflight,
                 audioContext>>
  /\ renderedStale' = FALSE
  /\ UNCHANGED announced
  /\ NotKitchenFrame

\* no status request of the selector of order id awaits its response
Settled(calls, id) ==
  \A m \in 1..Len(calls) : ~(calls[m].attached /\ calls[m].orderId = id)

\* change of the selector of the k-th card to `status': the handler up to
\* its await.  The cook leaves a selector alone while a request of it is
\* awaited, except for choosing "paid" where that is refused.
StatusChange(k, status) ==
  /\ k \in 1..Len(ordersContainer)
  /\ ordersContainer[k].bound
  /\ status # ordersContainer[k].value
  /\ LET card == ordersContainer[k] IN
     IF status = "paid" /\ card.paidDisabled
       THEN /\ ordersContainer' = [ordersContainer EXCEPT ![k].value = card.previous]
            /\ UNCHANGED statusInflight
       ELSE /\ Len(fetchInflight) + Len(statusInflight) < MaxRequests
            /\ Settled(statusInflight, card.id)
            /\ ordersContainer' = [ordersContainer EXCEPT ![k].value = status]
            /\ statusInflight' = Append(statusInflight,
                                        [orderId |-> card.id, status |-> status,
                                         previous |-> card.previous, attached |-> TRUE])
  /\ beeps' = 0
  /\ kitchenAlert' = Quiet
  /\ UNCHANGED <<serverOrders, currentOrderIds, fetchInflight, audioContext>>
  /\ renderedStale' = FALSE
  /\ UNCHANGED announced
  /\ NotKitchenFrame

\* the cards after the status request `call' succeeded
UpdatedCards(cards, call) ==
  LET k == CardIndex(cards, call.orderId) IN
  IF ~call.attached \/ k = 0 THEN cards
  ELSE IF call.status = "paid" THEN RemoveAt(cards, k)
  ELSE [cards EXCEPT ![k].status = call.status, ![k].previous = call.status]

\* the requests still awaited after the j-th succeeded: the selectors of a
\* removed card are out of the document
AfterSuccess(calls, j) ==
  LET rest == RemoveAt(calls, j) IN
  [m \in 1..Len(rest) |->
     IF calls[j].attached /\ calls[j].status = "paid" /\ rest[m].orderId = calls[j].orderId
       THEN [rest[m] EXCEPT !.attached = FALSE, !.previous = ""] ELSE rest[m]]

\* the change handler resumed with an OK response: the server has stored the
\* status; the label follows, a paid order's card and id go, and the list is
\* fetched again
StatusSuccess(j) ==
  /\ j \in 1..Len(statusInflight)
  /\ LET call == statusInflight[j] IN
     /\ serverOrders' = [serverOrders EXCEPT ![call.orderId] = call.status]
     /\ ordersContainer' = UpdatedCards(ordersContainer, call)
     /\ currentOrderIds' = IF call.status = "paid"
                             THEN currentOrderIds \ {call.orderId}
                             ELSE currentOrderIds
  /\ statusInflight' = AfterSuccess(statusInflight, j)
  /\ fetchOrders(fetchInflight)
  /\ beeps' = 0
  /\ kitchenAlert' = Quiet
  /\ UNCHANGED audioContext
  /\ renderedStale' = FALSE
  /\ UNCHANGED announced
  /\ NotKitchenFrame

\* failure handling that removes the card
StatusFailure_RemovesCard(j) ==
  /\ j \in 1..Len(statusInflight)
  /\ LET call == statusInflight[j]
         k == CardIndex(ordersContainer, call.orderId)
     IN ordersContainer' = IF call.attached /\ k # 0
                             THEN RemoveAt(ordersContainer, k)
                             ELSE ordersContainer
  /\ statusInflight' = RemoveAt(statusInflight, j)
  /\ kitchenAlert' = "error"
  /\ beeps' = 0
  /\ UNCHANGED <<serverOrders, currentOrderIds, fetchInflight, audioContext>>
  /\ renderedStale' = FALSE
  /\ UNCHANGED announced
  /\ NotKitchenFrame

\* the change handler resumed with a failed request: the user is alerted and
\* the selector set back
StatusFailure(j) ==
  /\ j \in 1..Len(statusInflight)
  /\ LET call == statusInflight[j]
         k == CardIndex(ordersContainer, call.orderId)
     IN ordersContainer' = IF call.attached /\ k # 0
                             THEN [ordersContainer EXCEPT ![k].value = call.previous]
                             ELSE ordersContainer
  /\ statusInflight' = RemoveAt(statusInflight, j)
  /\ kitchenAlert' = "error"
  /\ beeps' = 0
  /\ UNCHANGED <<serverOrders, currentOrderIds, fetchInflight, audioContext>>
  /\ renderedStale' = FALSE
  /\ UNCHANGED announced
  /\ NotKitchenFrame

(***************************************************************************)
(* Active orders of the table (customer page)                              *)
(***************************************************************************)
\* pollHandle = null
NoHandle == 0

\* what a handler of the active-orders section leaves alone
NotTrackingFrame == AllFrame /\ KeyFrame /\ GameFrame /\ BillingFrame /\ KitchenFrame

\* the lists of orders /api/tables/<code>/orders answers with (data.orders,
\* or [] when it is not an array)
TableOrderLists ==
  {<<>>,
   <<[id |-> 1, status |-> "pending", balance_due |-> 12000]>>,
   <<[id |-> 1, status |-> "ready", balance_due |-> 0],
     [id |-> 2, status |-> "pending", balance_due |-> 8000]>>}

\* buildOrderCard(order) of the customer page: what the card shows
buildTrackingCard(order) ==
  [id |-> order.id, status |-> order.status, paidInFull |-> ~(order.balance_due > 0)]

\* the id setInterval returns: a positive integer no live timer has
setInterval(live) ==
  CHOOSE n \in 1..(Cardinality(live) + 1) :
    n \notin live /\ \A m \in 1..(n - 1) : m \in live

\* ensurePolling that starts a timer whether or not one is running
ensurePolling_Unguarded ==
  /\ pollHandle' = setInterval(timers)
  /\ timers' = timers \cup {pollHandle'}

\* ensurePolling()
ensurePolling ==
  IF pollHandle # NoHandle
  THEN UNCHANGED <<pollHandle, timers>>
  ELSE /\ pollHandle' = setInterval(timers)
       /\ timers' = timers \cup {pollHandle'}

\* stopPolling()
stopPolling ==
  IF pollHandle # NoHandle
  THEN /\ timers' = timers \ {pollHandle}
       /\ pollHandle' = NoHandle
  ELSE UNCHANGED <<pollHandle, timers>>

\* renderActiveOrders(orders)
renderActiveOrders(orders) ==
  IF Len(orders) = 0
  THEN /\ activeOrdersHidden' = TRUE
       /\ stopPolling
       /\ UNCHANGED activeOrdersList
  ELSE /\ activeOrdersHidden' = FALSE
       /\ activeOrdersList' = [k \in 1..Len(orders) |-> buildTrackingCard(orders[k])]
       /\ ensurePolling

\* the active-orders section after load: the load listener has called
\* fetchActiveOrders(), which is suspended on its fetch; no timer yet.  The
\* section starts hidden and empty.
InitTracking ==
  /\ pollHandle = NoHandle
  /\ timers = {}
  /\ activeOrdersHidden = TRUE
  /\ activeOrdersList = <<>>
  /\ activeFetches = 1

\* a tick of a live interval timer: fetchActiveOrders() up to its fetch
PollTick ==
  /\ timers # {}
  /\ activeFetches < MaxActiveFetches
  /\ activeFetches' = activeFetches + 1
  /\ UNCHANGED <<pollHandle, timers, activeOrdersHidden, activeOrdersList>>
  /\ NotTrackingFrame

\* fetchActiveOrders() called by the load listener or a timer, resumed with
\* an OK response whose body lists orders
ActiveOrdersRender(orders) ==
  /\ activeFetches > 0
  /\ renderActiveOrders(orders)
  /\ activeFetches' = activeFetches - 1
  /\ NotTrackingFrame

\* fetchActiveOrders() called by the load listener or a timer, resumed with
\* a rejected fetch, a non-OK response or an unreadable body: catch
ActiveOrdersFailure ==
  /\ activeFetches > 0
  /\ activeFetches' = activeFetches - 1
  /\ UNCHANGED <<pollHandle, timers, activeOrdersHidden, activeOrdersList>>
  /\ NotTrackingFrame

\* the fetchActiveOrders() awaited by submitOrder() renders orders, and
\* submitOrder() resumes in the same turn: finally.  (SubmitFinally is the
\* same resumption after a failed fetch of the active orders.)
SubmitRender(inv, orders) ==
  /\ inv \in BagToSet(inflight)
  /\ inv.phase = "active"
  /\ renderActiveOrders(orders)
  /\ submitDisabled' = (Len(orderState) = 0)
  /\ inflight' = inflight (-) SetToBag({inv})
  /\ alertMsg' = NoAlert
  /\ UNCHANGED <<orderState, modalState, orderTotalLabel, orderStatusMessage,
                 noteField, activeFetches>>
  /\ KeyFrame /\ GameFrame /\ BillingFrame /\ KitchenFrame /\ DomFrame

(***************************************************************************)
(* Specifications                                                          *)
(***************************************************************************)
\* the page after load: empty cart, no session, nothing in flight; the
\* submit button is rendered disabled by the page template
InitialSubmitDisabled == TRUE

InitPage ==
  /\ orderState = <<>>
  /\ modalState = NoModal
  /\ submitDisabled = InitialSubmitDisabled
  /\ orderTotalLabel = 0
  /\ orderStatusMessage = ""
  /\ noteField = ""
  /\ inflight = EmptyBag
  /\ alertMsg = NoAlert
  /\ specialToggleChecked = FALSE
  /\ InitGame
  /\ InitBilling
  /\ InitKitchen
  /\ InitTracking

Init == InitPage /\ keyA = <<>> /\ keyB = <<>>

AllGroupIds == UNION {{getMenuConfig(i).groups[k].id : k \in 1..Len(getMenuConfig(i).groups)} : i \in MenuIds}
AllOptionIds == {0} \cup UNION {UNION {GroupInputs(getMenuConfig(i).groups[k]) :
                                 k \in 1..Len(getMenuConfig(i).groups)} : i \in MenuIds}

\* the menu cards offered in the cart specifications
CartItems == {1, 2, 3}
SimpleItems == {1, 4}

\* Spec: the cart and the customization session
Next ==
  \/ \E i \in CartItems : AddClick(i)
  \/ \E g \in AllGroupIds, o \in AllOptionIds : OptionChange(g, o)
  \/ SpecialToggleChange
  \/ \E d \in {-1, 1} : adjustModalQuantity(d)
  \/ ConfirmClick
  \/ closeCustomization
  \/ \E k \in 1..MaxCartUnits, d \in {-1, 1} : QuantityClick(k, d)

Spec == Init /\ [][Next]_vars

\* SpecSubmit: the cart and the submission round trip
NextSubmit ==
  \/ \E i \in SimpleItems : AddClick(i)
  \/ \E k \in 1..MaxCartUnits, d \in {-1, 1} : QuantityClick(k, d)
  \/ \E v \in NoteValues : NoteInput(v)
  \/ SubmitClick
  \/ \E inv \in BagToSet(inflight) : SubmitSuccess(inv)
  \/ \E inv \in BagToSet(inflight) : SubmitFailure(inv)
  \/ \E inv \in BagToSet(inflight) : SubmitFinally(inv)

SpecSubmit == Init /\ [][NextSubmit]_vars

\* SpecCart: a longer cart of the simple items and of item 2
OrderItems == {1, 2, 4}

NextCart ==
  \/ \E i \in OrderItems : AddClickWithin(i, MaxOrderUnits)
  \/ \E g \in AllGroupIds, o \in AllOptionIds : OptionChange(g, o)
  \/ SpecialToggleChange
  \/ \E d \in {-1, 1} : adjustModalQuantity(d)
  \/ ConfirmClickWithin(MaxOrderUnits)
  \/ closeCustomization
  \/ \E k \in 1..MaxOrderUnits, d \in {-1, 1} : QuantityClickWithin(k, d, MaxOrderUnits)

SpecCart == Init /\ [][NextCart]_vars

\* SpecCatalog: the cart and the session over the catalog entries that leave
\* things out
CatalogItems == {6, 7, 9}

NextCatalog ==
  \/ \E i \in CatalogItems : AddClick(i)
  \/ \E g \in AllGroupIds, o \in AllOptionIds : OptionChange(g, o)
  \/ SpecialToggleChange
  \/ \E d \in {-1, 1} : adjustModalQuantity(d)
  \/ ConfirmClick
  \/ closeCustomization
  \/ \E k \in 1..MaxCartUnits, d \in {-1, 1} : QuantityClick(k, d)

SpecCatalog == Init /\ [][NextCatalog]_vars

\* SpecRequired: sessions of the items that have a required single group
\* with options
RequiredItems == {2, 6, 8}

NextRequired ==
  \/ \E i \in RequiredItems : AddClick(i)
  \/ \E g \in AllGroupIds, o \in AllOptionIds : OptionChange(g, o)
  \/ SpecialToggleChange
  \/ \E d \in {-1, 1} : adjustModalQuantity(d)
  \/ ConfirmClick
  \/ closeCustomization
  \/ \E k \in 1..MaxCartUnits, d \in {-1, 1} : QuantityClick(k, d)

SpecRequired == Init /\ [][NextRequired]_vars

\* SpecKey: two selection states of any two items, changed independently
\* the items whose selection states SpecKey explores
KeyItems == {1, 2, 3, 4, 5, 12}

InitKey ==
  /\ InitPage
  /\ \E i \in KeyItems : keyA = OpenedSelections(i)
  /\ \E i \in KeyItems : keyB = OpenedSelections(i)

NextKey ==
  \/ \E g \in AllGroupIds, o \in AllOptionIds : KeyChangeA(g, o)
  \/ \E g \in AllGroupIds, o \in AllOptionIds : KeyChangeB(g, o)

SpecKey == InitKey /\ [][NextKey]_vars

\* SpecGame: the minigame, played and retried
NextGame ==
  \/ \E isDown \in BOOLEAN, inside \in BOOLEAN : handleSqueeze(isDown, inside)
  \/ updateTimer
  \/ launchGame

SpecGame == Init /\ [][NextGame]_vars

\* SpecBilling: selecting orders and generating QR codes on the billing page
NextBilling ==
  \/ \E k \in 1..Len(rows) : CheckboxChange(k)
  \/ clearSelection
  \/ GenerateClick
  \/ \E req \in BagToSet(qrInflight) : QrResponse(req)
  \/ \E req \in BagToSet(qrInflight) : QrFailure(req)
  \/ handleSubmit

SpecBilling == Init /\ [][NextBilling]_vars

\* SpecKitchen: the dashboard polling, rendering and changing statuses while
\* customers place orders
NextKitchen ==
  \/ \E id \in OrderIds : NewOrder(id)
  \/ Poll
  \/ \E k \in 1..MaxRequests : FetchAnswer(k)
  \/ \E k \in 1..MaxRequests : FetchRender(k)
  \/ \E k \in 1..MaxRequests : FetchFailure(k)
  \/ \E k \in 1..Cardinality(OrderIds) : SelectFocus(k)
  \/ \E k \in 1..Cardinality(OrderIds), status \in StatusChoices : StatusChange(k, status)
  \/ \E j \in 1..MaxRequests : StatusSuccess(j)
  \/ \E j \in 1..MaxRequests : StatusFailure(j)

SpecKitchen == Init /\ [][NextKitchen]_vars

\* SpecTracking: the active orders of the table, fetched at load, by the
\* polling timer and after a submitted order
NextTracking ==
  \/ \E i \in SimpleItems : AddClick(i)
  \/ SubmitClick
  \/ \E inv \in BagToSet(inflight) : SubmitSuccess(inv)
  \/ \E inv \in BagToSet(inflight) : SubmitFailure(inv)
  \/ \E inv \in BagToSet(inflight) : SubmitFinally(inv)
  \/ \E inv \in BagToSet(inflight), orders \in TableOrderLists : SubmitRender(inv, orders)
  \/ PollTick
  \/ \E orders \in TableOrderLists : ActiveOrdersRender(orders)
  \/ ActiveOrdersFailure

SpecTracking == Init /\ [][NextTracking]_vars

(***************************************************************************)
(* Vocabulary of the properties                                            *)
(***************************************************************************)
\* positions of the cart lines stored under key
LinesWithKey(cart, key) == {k \in 1..Len(cart) : cart[k].key = key}

\* total quantity stored under key
RECURSIVE QuantityOfKey(_, _)
QuantityOfKey(cart, key) ==
  IF cart = <<>> THEN 0
  ELSE (IF Head(cart).key = key THEN Head(cart).quantity ELSE 0)
       + QuantityOfKey(Tail(cart), key)

KeysOf(cart) == {cart[k].key : k \in 1..Len(cart)}

\* a step that puts units into the cart (an upsert)
UpsertStep == CartUnits(orderState') > CartUnits(orderState)

\* a step that commits the open session into the cart
CommitStep ==
  /\ modalState # NoModal
  /\ modalState' = NoModal
  /\ orderState' # orderState

\* the key under which the open session is committed
SessionKey == buildItemKey(modalState.menuItemId,
                           buildOptionKeyFromSelections(modalState.selections))

\* catalog price of option id of the group gid of item i
CatalogPrice(i, gid, id) ==
  LET g == CHOOSE g \in {menuConfigs[i].groups[k] : k \in 1..Len(menuConfigs[i].groups)} : g.id = gid
  IN (CHOOSE o \in {g.options[p] : p \in 1..Len(g.options)} : o.id = id).price

\* sum of f over the finite set S of integers
RECURSIVE SumOver(_, _)
SumOver(S, f) ==
  IF S = {} THEN 0
  ELSE LET x == CHOOSE x \in S : TRUE IN f[x] + SumOver(S \ {x}, f)

\* chosen option ids of one selection, as a set
ChosenIds(selection) ==
  IF selection.type = "single"
  THEN (IF selection.option = NoOption THEN {} ELSE {selection.option.id})
  ELSE {selection.options[p].id : p \in 1..Len(selection.options)}

\* the price the specification gives a session: base price, the catalog
\* prices of the chosen options of every group, the special delta if toggled
ExpectedUnitPrice(state) ==
  CardPrice(state.menuItemId)
  + SumOver(1..Len(state.selections),
            [k \in 1..Len(state.selections) |->
               SumOver(ChosenIds(state.selections[k]),
                       [id \in ChosenIds(state.selections[k]) |->
                          CatalogPrice(state.menuItemId, state.selections[k].groupId, id)])])
  + (IF state.specialSelected THEN menuConfigs[state.menuItemId].special.price_delta ELSE 0)

\* every required group of item i has a choice in selections
RequiredSatisfied(i, selections) ==
  \A g \in 1..Len(menuConfigs[i].groups) :
    menuConfigs[i].groups[g].is_required =>
      \E k \in 1..Len(selections) :
        /\ selections[k].groupId = menuConfigs[i].groups[g].id
        /\ ChosenIds(selections[k]) # {}

\* suspended invocations in a phase
InPhase(bag, phase) == {inv \in BagToSet(bag) : inv.phase = phase}
PhaseCount(bag, phase) ==
  SumOver(InPhase(bag, phase), [inv \in InPhase(bag, phase) |-> CopiesIn(inv, bag)])

\* a step in which a success response is handled
SuccessStep == PhaseCount(inflight', "active") > PhaseCount(inflight, "active")

\* a step in which a failed submission is handled
FailureStep ==
  /\ PhaseCount(inflight', "fetch") < PhaseCount(inflight, "fetch")
  /\ PhaseCount(inflight', "active") = PhaseCount(inflight, "active")

\* the invocation that a FailureStep ends
EndedInvocation ==
  CHOOSE inv \in InPhase(inflight, "fetch") : CopiesIn(inv, inflight') < CopiesIn(inv, inflight)

\* two selection states chose the same set of options in every group
SameChoices(a, b) ==
  /\ Len(a) = Len(b)
  /\ \A k \in 1..Len(a) :
       \E m \in 1..Len(b) :
         /\ b[m].groupId = a[k].groupId
         /\ ChosenIds(b[m]) = ChosenIds(a[k])

(***************************************************************************)
(* Properties                                                              *)
(***************************************************************************)
\* C1: the cart never holds two lines with the same key, and a step that
\* puts units into the cart adds them to the one line of the item's key:
\* when the key was present no line is added and that line's quantity grows
\* by the added quantity, every other key keeping its quantity.
C1_OneLinePerKey ==
  [][ /\ \A key \in KeysOf(orderState') : Cardinality(LinesWithKey(orderState', key)) = 1
      /\ UpsertStep =>
           \E key \in KeysOf(orderState') :
             /\ QuantityOfKey(orderState', key)
                  = QuantityOfKey(orderState, key) + CartUnits(orderState') - CartUnits(orderState)
             /\ \A other \in (KeysOf(orderState) \cup KeysOf(orderState')) \ {key} :
                  QuantityOfKey(orderState', other) = QuantityOfKey(orderState, other)
             /\ key \in KeysOf(orderState) => Len(orderState') = Len(orderState)
             /\ key \notin KeysOf(orderState) => Len(orderState') = Len(orderState) + 1
             /\ CommitStep => key = SessionKey
    ]_vars

\* a customized line holding two units: two commits under one key, a commit
\* of quantity two, or a commit and a click on the increase button
C1_Witness ==
  /\ Len(orderState) = 1
  /\ orderState[1].menuItemId = 2
  /\ orderState[1].quantity = 2
  /\ modalState = NoModal

C3_ValidationBeforeCommit ==
  [][ /\ alertMsg' # NoAlert =>
           /\ modalState # NoModal
           /\ ~RequiredSatisfied(modalState.menuItemId, modalState.selections)
           /\ modalState' = modalState
           /\ orderState' = orderState
      /\ (modalState # NoModal /\ ~RequiredSatisfied(modalState.menuItemId, modalState.selections))
           => orderState' = orderState
      /\ \A k \in 1..Len(orderState') :
           orderState'[k].selections # <<>> =>
             RequiredSatisfied(orderState'[k].menuItemId, orderState'[k].selections)
    ]_vars

\* a rejected confirm: the error is up, the session is open on its
\* unsatisfied selections with a raised quantity, the cart has a line
C3_Witness ==
  /\ alertMsg # NoAlert
  /\ modalState # NoModal
  /\ modalState.quantity = 2
  /\ ~RequiredSatisfied(modalState.menuItemId, modalState.selections)
  /\ Len(orderState) > 0

\* C4: handling a success response leaves the cart empty, the order-level
\* note empty and the submit button disabled.
C4_SuccessClears ==
  [][ SuccessStep =>
        /\ orderState' = <<>>
        /\ noteField' = ""
        /\ submitDisabled'
        /\ orderTotalLabel' = 0
    ]_vars

\* a success response was handled and its invocation waits on fetchActiveOrders
C4_Witness ==
  /\ orderStatusMessage = "success"
  /\ orderState = <<>>
  /\ noteField = ""
  /\ submitDisabled
  /\ PhaseCount(inflight, "active") = 1

\* C5: handling a failed submission leaves the cart and the order-level note
\* as they were, shows the error message, enables the submit button iff the
\* cart is non-empty, and sends no request.
C5_FailurePreserves ==
  [][ FailureStep =>
        /\ orderState' = orderState
        /\ noteField' = noteField
        /\ orderStatusMessage' = "error"
        /\ submitDisabled' = (orderState = <<>>)
        /\ BagCardinality(inflight') = BagCardinality(inflight) - 1
    ]_vars

\* after a failure: error shown, cart and note still there, submit enabled
C5_Witness ==
  /\ orderStatusMessage = "error"
  /\ Len(orderState) = 2
  /\ noteField = "n"
  /\ ~submitDisabled
  /\ inflight = EmptyBag

\* C6 as stated: when a submission fails the cart equals its contents at the
\* moment the submit action was taken.
C6_RestoredToSubmitted ==
  [][ FailureStep =>
        RequestBody(orderState', "").items = EndedInvocation.body.items
    ]_vars

\* C6 as amended: while a request is in flight the add and quantity buttons
\* still act on the cart, and handling the failure leaves the cart as it is
\* at that moment, whatever was changed since the submit action.
C6_FailureKeepsCurrentCart ==
  /\ [][ FailureStep => orderState' = orderState ]_vars
  /\ [][ (UpsertStep /\ PhaseCount(inflight, "fetch") > 0) =>
           (PhaseCount(inflight', "fetch") = PhaseCount(inflight, "fetch")
            /\ \A inv \in InPhase(inflight', "fetch") : inv \in InPhase(inflight, "fetch")) ]_vars
  /\ [](\A inv \in InPhase(inflight, "fetch") :
          (modalState = NoModal /\ CartUnits(orderState) < MaxCartUnits)
            => ENABLED AddClick(1))

\* a failure was handled while another request is still in flight whose
\* payload is no longer the cart
C6_Witness ==
  /\ orderStatusMessage = "error"
  /\ \E inv \in InPhase(inflight, "fetch") :
       /\ inv.body.items # RequestBody(orderState, "").items
       /\ Len(orderState) > Len(inv.body.items)

\* C7: whenever the cart is empty the submit button is disabled, and no
\* request in flight carries an empty item list.
C7_EmptyCartNotSubmitted ==
  /\ (orderState = <<>> => submitDisabled)
  /\ \A inv \in InPhase(inflight, "fetch") : inv.body.items # <<>>

\* the cart was emptied with the quantity buttons while a request is in flight
C7_Witness ==
  /\ orderState = <<>>
  /\ submitDisabled
  /\ PhaseCount(inflight, "fetch") = 1
  /\ PhaseCount(inflight, "active") = 0

\* C8: two selection states of one item with the same chosen options in
\* every group have the same cart key, whatever order the options were
\* checked in.
C8_SameChoicesSameKey ==
  (keyA.item = keyB.item /\ SameChoices(keyA.selections, keyB.selections))
    => KeyOf(keyA) = KeyOf(keyB)

\* the same options checked in a different order in two groups
C8_Witness ==
  /\ keyA.item = 12 /\ keyB.item = 12
  /\ SameChoices(keyA.selections, keyB.selections)
  /\ keyA.selections[1].options # keyB.selections[1].options
  /\ keyA.selections[2].options # keyB.selections[2].options
  /\ Len(keyA.selections[1].options) = 3

\* C9: two selection states of one item that differ in the chosen options of
\* some group have different cart keys, and so have any two selection states
\* of different items.
C9_DifferentChoicesDifferentKey ==
  /\ (keyA.item = keyB.item /\ ~SameChoices(keyA.selections, keyB.selections))
       => KeyOf(keyA) # KeyOf(keyB)
  /\ keyA.item # keyB.item => KeyOf(keyA) # KeyOf(keyB)

\* option ids whose digits concatenate alike: {1, 11} against {111}
C9_Witness ==
  /\ keyA.item = 12 /\ keyB.item = 12
  /\ ChosenIds(keyA.selections[1]) = {1, 11}
  /\ ChosenIds(keyB.selections[1]) = {111}
  /\ ChosenIds(keyA.selections[2]) = ChosenIds(keyB.selections[2])
  /\ ChosenIds(keyA.selections[3]) = ChosenIds(keyB.selections[3])

\* C10: a commit that is merged into an existing cart line has the unit
\* price of that line.
C10_OnlyIdenticalMerged ==
  [][ (CommitStep /\ SessionKey \in KeysOf(orderState)) =>
        orderState[CartIndex(orderState, SessionKey)].unitPrice = modalState.currentUnitPrice
    ]_vars

\* a step that opens a session, and a step that ends one
OpenStep == modalState = NoModal /\ modalState' # NoModal
EndStep == modalState # NoModal /\ modalState' = NoModal

\* C11: a session goes Closed -> Open -> Committed or Cancelled.  A step
\* taken while a session is open changes the cart only by committing it:
\* the session had every required group satisfied, the step is exactly one
\* upsert of the session's quantity under the key of the session's item and
\* selections (every other key keeps its quantity, no second line of the key
\* appears), and after it no session state remains.  A step that ends the
\* session otherwise, that keeps it open or that opens one leaves the cart
\* as it was.
C11_SessionLifecycle ==
  [][ /\ (modalState # NoModal /\ orderState' # orderState) =>
          /\ modalState' = NoModal
          /\ ~specialToggleChecked'
          /\ RequiredSatisfied(modalState.menuItemId, modalState.selections)
          /\ QuantityOfKey(orderState', SessionKey)
               = QuantityOfKey(orderState, SessionKey) + modalState.quantity
          /\ CartUnits(orderState') = CartUnits(orderState) + modalState.quantity
          /\ Cardinality(LinesWithKey(orderState', SessionKey)) = 1
          /\ \A key \in (KeysOf(orderState) \cup KeysOf(orderState')) \ {SessionKey} :
               QuantityOfKey(orderState', key) = QuantityOfKey(orderState, key)
          /\ Len(orderState') = Len(orderState)
                                + (IF SessionKey \in KeysOf(orderState) THEN 0 ELSE 1)
      /\ (modalState # NoModal /\ modalState' # NoModal) =>
          /\ orderState' = orderState
          /\ modalState'.menuItemId = modalState.menuItemId
      /\ OpenStep => orderState' = orderState
     ]_vars

\* C11 witness: a session of item 3 with both options of its required group
\* and quantity 2 has been committed and closed
C11_Witness ==
  /\ modalState = NoModal
  /\ Len(orderState) = 1
  /\ orderState[1].menuItemId = 3
  /\ orderState[1].quantity = 2
  /\ orderState[1].unitPrice = 47500

\* the option ids a freshly opened session has chosen in a group
DefaultIds(group) ==
  IF group.selection_type = "single" /\ group.is_required /\ Len(group.options) > 0
  THEN {group.options[1].id}
  ELSE {}

\* state is a session of item i in which nothing has been done yet
DefaultSession(i, state) ==
  /\ state.menuItemId = i
  /\ state.quantity = 1
  /\ ~state.specialSelected
  /\ Len(state.selections) = Len(menuConfigs[i].groups)
  /\ \A k \in 1..Len(state.selections) :
       /\ state.selections[k].groupId = menuConfigs[i].groups[k].id
       /\ ChosenIds(state.selections[k]) = DefaultIds(menuConfigs[i].groups[k])
  /\ state.currentUnitPrice = ExpectedUnitPrice(state)

\* C12: a step that ends a session without committing its quantity (cancel
\* button, close button, backdrop) leaves the cart, the total and the submit
\* button as they were and leaves no session state; every session opened,
\* whatever was done in the sessions before it, starts from the defaults of
\* its item: quantity 1, special toggle off (flag and checkbox), the first
\* option of each required single group and nothing else chosen, and the
\* unit price of exactly those choices.
C12_CancelDiscards ==
  [][ /\ (EndStep /\ CartUnits(orderState') # CartUnits(orderState) + modalState.quantity) =>
          /\ orderState' = orderState
          /\ orderTotalLabel' = orderTotalLabel
          /\ submitDisabled' = submitDisabled
          /\ ~specialToggleChecked'
      /\ OpenStep =>
          /\ ~specialToggleChecked'
          /\ \E i \in MenuIds : DefaultSession(i, modalState')
     ]_vars

\* C12 witness: a session of item 2 stands at its defaults, special off,
\* while the cart holds a line of item 2 committed with the special toggle
\* on: sessions were opened, changed and ended before this one
C12_Witness ==
  /\ modalState # NoModal
  /\ DefaultSession(2, modalState)
  /\ ~specialToggleChecked
  /\ Len(orderState) = 1
  /\ orderState[1].menuItemId = 2
  /\ orderState[1].unitPrice = 55000

\* selections of groups in which nothing is chosen
BlankSelections(groups) ==
  [k \in 1..Len(groups) |->
     [groupId |-> groups[k].id, type |-> groups[k].selection_type,
      option |-> NoOption, options |-> <<>>]]

\* selections after the user has clicked, group after group from the k-th
\* on, the first option of every required single group that has options
RECURSIVE ChooseFirsts(_, _, _)
ChooseFirsts(groups, selections, k) ==
  IF k > Len(groups) THEN selections
  ELSE ChooseFirsts(groups,
         IF DefaultIds(groups[k]) # {}
         THEN ChangeSelections(groups, selections, groups[k].id,
                               groups[k].options[1].id, TRUE)
         ELSE selections,
         k + 1)

\* the session state in which the user chose those first options by hand
ExplicitFirstChoice(state) ==
  updateModalSummary(
    [state EXCEPT !.selections = ChooseFirsts(state.groups, BlankSelections(state.groups), 1)])

\* two sessions commit the same key, unit price and note
CommitsAlike(a, b) ==
  /\ addCustomizedItem(a).key = addCustomizedItem(b).key
  /\ addCustomizedItem(a).unitPrice = addCustomizedItem(b).unitPrice
  /\ addCustomizedItem(a).note = addCustomizedItem(b).note

\* C13: a session that has just been opened has the first option of every
\* required single group that has options selected, and committing it gives
\* the key, unit price and note of a session in which the user clicked those
\* first options (item 2: base 40 with a first option of 5 gives 45); a
\* session brought back by the user's own clicks to those choices commits
\* as the just opened one does, and the line a commit straight after opening
\* creates carries that key, price and note.
C13_DefaultIsAChoice ==
  [][ /\ OpenStep =>
          /\ \A k \in 1..Len(modalState'.groups) :
               DefaultIds(modalState'.groups[k]) # {} =>
                 /\ modalState'.selections[k].option # NoOption
                 /\ modalState'.selections[k].option.id = modalState'.groups[k].options[1].id
          /\ CommitsAlike(modalState', ExplicitFirstChoice(modalState'))
          /\ modalState'.menuItemId = 2 => modalState'.currentUnitPrice = 45000
      /\ (/\ modalState # NoModal /\ modalState' # NoModal
          /\ modalState' # modalState
          /\ modalState'.quantity = 1
          /\ DefaultSession(modalState'.menuItemId, modalState')) =>
            CommitsAlike(modalState',
                         openCustomization(modalState'.menuItemId,
                                           CardPrice(modalState'.menuItemId),
                                           getMenuConfig(modalState'.menuItemId)))
      /\ (/\ CommitStep
          /\ DefaultSession(modalState.menuItemId, modalState)
          /\ SessionKey \notin KeysOf(orderState)) =>
            LET line == orderState'[Len(orderState')]
                explicit == addCustomizedItem(ExplicitFirstChoice(modalState)) IN
            /\ line.key = explicit.key
            /\ line.unitPrice = explicit.unitPrice
            /\ line.note = explicit.note
     ]_vars

\* C13 witness: item 2 was committed straight from its defaults: the only
\* line has the key of option 100 of group 10 and unit price 45
C13_Witness ==
  /\ modalState = NoModal
  /\ Len(orderState) = 1
  /\ orderState[1].menuItemId = 2
  /\ orderState[1].key = addCustomizedItem(
                           ExplicitFirstChoice(openCustomization(2, CardPrice(2), getMenuConfig(2)))).key
  /\ orderState[1].unitPrice = 45000
  /\ orderState[1].quantity = 1

\* the deltas and keys updateQuantity is tried with on every reachable cart:
\* the keys of the cart and the keys of the simple items 1 and 4 (item 4 is
\* never in the cart of this specification)
QuantityDeltas == {-2, -1, 1, 2}
QuantityKeys(cart) ==
  KeysOf(cart) \cup {buildItemKey(1, StrBase), buildItemKey(4, StrBase)}

\* the lines of cart other than the line of key, in order
OtherLines(cart, key) == SelectSeq(cart, LAMBDA line : line.key # key)

\* what the claim says of updateQuantity(key, delta) on cart
AdjustsAsSpecified(cart, key, delta) ==
  LET after == updateQuantity(cart, key, delta) IN
  /\ key \notin KeysOf(cart) => after = cart
  /\ key \in KeysOf(cart) =>
       IF QuantityOfKey(cart, key) + delta <= 0
       THEN key \notin KeysOf(after)
       ELSE /\ QuantityOfKey(after, key) = QuantityOfKey(cart, key) + delta
            /\ Cardinality(LinesWithKey(after, key)) = 1
            /\ Len(after) = Len(cart)
  /\ OtherLines(after, key) = OtherLines(cart, key)

\* C14: on every reachable cart, updateQuantity with a key and a delta adds
\* the delta to the quantity of the line of the key, removes the line when
\* the result is zero or less, changes nothing when the key is not in the
\* cart, and leaves every other line as it was; a click that takes a unit
\* out of the cart is such an adjustment by -1 of one line.
C14_QuantityAdjust ==
  /\ [](\A key \in QuantityKeys(orderState) : \A delta \in QuantityDeltas :
          AdjustsAsSpecified(orderState, key, delta))
  /\ [][CartUnits(orderState') < CartUnits(orderState) =>
          \E key \in KeysOf(orderState) :
            /\ orderState' = updateQuantity(orderState, key, -1)
            /\ CartUnits(orderState') = CartUnits(orderState) - 1
            /\ OtherLines(orderState', key) = OtherLines(orderState, key)
            /\ IF QuantityOfKey(orderState, key) = 1
               THEN key \notin KeysOf(orderState')
               ELSE QuantityOfKey(orderState', key) = QuantityOfKey(orderState, key) - 1
       ]_vars

\* C14 witness: the cart holds two lines of quantity 1; taking one unit from
\* the first removes it and leaves the second
C14_Witness ==
  /\ Len(orderState) = 2
  /\ orderState[1].quantity = 1
  /\ orderState[2].quantity = 1
  /\ updateQuantity(orderState, orderState[1].key, -1) = <<orderState[2]>>
  /\ buildItemKey(4, StrBase) \notin KeysOf(orderState)

\* sum of unitPrice times quantity over the lines of cart
CartSum(cart) ==
  SumOver(1..Len(cart), [k \in 1..Len(cart) |-> cart[k].unitPrice * cart[k].quantity])

\* C15: every step that changes the cart leaves the displayed total equal
\* to the sum of unitPrice times quantity over the lines then in the cart,
\* rounded once to two decimals, and a step that does not change the cart
\* does not change the displayed total, so the total shown is never that of
\* an earlier cart.
C15_TotalFollowsCart ==
  [][ /\ orderState' # orderState => orderTotalLabel' = ToFixed2(CartSum(orderState'))
      /\ orderState' = orderState => orderTotalLabel' = orderTotalLabel
      /\ orderState' # <<>> => orderTotalLabel' = ToFixed2(CartSum(orderState'))
     ]_vars

\* C15 witness: the cart holds item 1 at 50 and item 3 with both options of
\* its required group at 47.50, and the total shows 97.50
C15_Witness ==
  /\ Len(orderState) = 2
  /\ {orderState[1].unitPrice, orderState[2].unitPrice} = {50000, 47500}
  /\ orderTotalLabel = 97500

\* a step in which the submit action is taken, and the invocation it starts
SubmitStep == PhaseCount(inflight', "fetch") > PhaseCount(inflight, "fetch")
StartedInvocation ==
  CHOOSE inv \in InPhase(inflight', "fetch") : CopiesIn(inv, inflight') > CopiesIn(inv, inflight)

\* C16: the body a submit action sends has one element per line of the cart
\* at that moment, in cart order, with that line's menu item id, quantity,
\* note and unit price, together with the order-level note (the text of the
\* note field without surrounding blanks); the submit action itself leaves
\* the cart as it is.
C16_PayloadIsCartSnapshot ==
  [][SubmitStep =>
       LET body == StartedInvocation.body IN
       /\ orderState' = orderState
       /\ Len(body.items) = Len(orderState)
       /\ \A k \in 1..Len(orderState) :
            /\ body.items[k].menu_item_id = orderState[k].menuItemId
            /\ body.items[k].quantity = orderState[k].quantity
            /\ body.items[k].note = orderState[k].note
            /\ body.items[k].unit_price = orderState[k].unitPrice
       /\ body.note = (IF noteField = " n" THEN "n" ELSE noteField)
    ]_vars

\* C16 witness: a request is in flight whose body lists item 4 and then
\* item 1, one unit each, with the order note n typed after a blank
C16_Witness ==
  \E inv \in BagToSet(inflight) :
    /\ inv.phase = "fetch"
    /\ Len(inv.body.items) = 2
    /\ inv.body.items[1].menu_item_id = 4
    /\ inv.body.items[1].unit_price = 25000
    /\ inv.body.items[2].menu_item_id = 1
    /\ inv.body.items[2].quantity = 1
    /\ inv.body.note = "n"
    /\ noteField = " n"

\* the session state validateSelections reads for the selection state ks
SessionOf(ks) ==
  [groups |-> getMenuConfig(ks.item).groups, selections |-> ks.selections]

\* positions, in group order, of the required groups of item i that have no
\* chosen option in selections
UnsatisfiedGroups(i, selections) ==
  {g \in 1..Len(menuConfigs[i].groups) :
     /\ menuConfigs[i].groups[g].is_required
     /\ \A k \in 1..Len(selections) :
          selections[k].groupId = menuConfigs[i].groups[g].id => ChosenIds(selections[k]) = {}}

\* C17: for every selection state a session can be in, validateSelections
\* returns no error exactly when every required group has a chosen option,
\* and otherwise the error of the first required group, in group order, that
\* has none (with the wording of its type); a group that is not required
\* never causes an error, chosen or not.
C17_ValidationResult ==
  LET result == validateSelections(SessionOf(keyA))
      bad == UnsatisfiedGroups(keyA.item, keyA.selections)
  IN /\ (result = NoAlert) <=> (bad = {})
     /\ (result = NoAlert) <=> RequiredSatisfied(keyA.item, keyA.selections)
     /\ bad # {} =>
          LET first == CHOOSE g \in bad : \A h \in bad : g <= h IN
          /\ result.group = menuConfigs[keyA.item].groups[first].id
          /\ result.type = menuConfigs[keyA.item].groups[first].selection_type

\* C17 witness: item 5 with the required groups 30 and 32 both without a
\* choice and the optional group 31 chosen: the error names group 30
C17_Witness ==
  /\ keyA.item = 5
  /\ UnsatisfiedGroups(5, keyA.selections) = {1, 3}
  /\ ChosenIds(keyA.selections[2]) = {8}
  /\ validateSelections(SessionOf(keyA)) = [type |-> "multiple", group |-> 30]

\* C18: in every reachable state every line of the cart has a quantity of
\* at least 1 (a line whose quantity would reach zero is not in the cart)
\* and an open session has a quantity of at least 1, whatever increase and
\* decrease clicks came before.
C18_QuantitiesAtLeastOne ==
  /\ \A k \in 1..Len(orderState) : orderState[k].quantity >= 1
  /\ modalState # NoModal => modalState.quantity >= 1

\* C18 witness: a session stands at quantity 1, where a decrease click
\* leaves it, beside a cart line of quantity 1, which a decrease click removes
C18_Witness ==
  /\ modalState # NoModal
  /\ modalState.quantity = 1
  /\ modalState.specialSelected
  /\ Len(orderState) = 1
  /\ orderState[1].quantity = 1

\* the keys of cart in cart order, and those of them that are in the set S
KeySeq(cart) == [k \in 1..Len(cart) |-> cart[k].key]
KeysWithin(cart, S) == SelectSeq(KeySeq(cart), LAMBDA key : key \in S)

\* C19: in every step the keys that are in the cart before and after keep
\* their relative order (a merge and a quantity change leave the line where
\* it is, a removal closes the gap), and a key that was not in the cart
\* before the step, never seen or removed earlier, is the last line after it.
C19_OrderKept ==
  [][ /\ KeysWithin(orderState', KeysOf(orderState))
           = KeysWithin(orderState, KeysOf(orderState'))
      /\ \A k \in 1..Len(orderState') :
           orderState'[k].key \notin KeysOf(orderState) => k = Len(orderState')
      /\ (Len(orderState') = Len(orderState) /\ orderState' # orderState) =>
           KeySeq(orderState') = KeySeq(orderState)
     ]_vars

\* C19 witness: the cart holds item 4 and then item 1, and its first line
\* has been merged into since (quantity 2) without leaving its place
C19_Witness ==
  /\ Len(orderState) = 2
  /\ orderState[1].menuItemId = 4
  /\ orderState[1].quantity = 2
  /\ orderState[2].menuItemId = 1
  /\ orderState[2].quantity = 1

\* a step of an open session in which the k-th group, a multiple group, has
\* exactly one more option checked and nothing else of the session differs
ChecksOneMore(k) ==
  /\ modalState.selections[k].type = "multiple"
  /\ ChosenIds(modalState.selections[k]) \subseteq ChosenIds(modalState'.selections[k])
  /\ Cardinality(ChosenIds(modalState'.selections[k]))
       = Cardinality(ChosenIds(modalState.selections[k])) + 1
  /\ \A m \in 1..Len(modalState.selections) :
       m # k => modalState'.selections[m] = modalState.selections[m]
  /\ modalState'.specialSelected = modalState.specialSelected
  /\ modalState'.quantity = modalState.quantity

\* C20: checking one more option of a multiple group, everything else of the
\* session staying as it is, never lowers the session's unit price nor what
\* calculateUnitPrice gives for its selections.
C20_MoreOptionsNeverCheaper ==
  [][(modalState # NoModal /\ modalState' # NoModal) =>
       \A k \in 1..Len(modalState.selections) :
         ChecksOneMore(k) =>
           /\ modalState'.currentUnitPrice >= modalState.currentUnitPrice
           /\ calculateUnitPrice(modalState'.basePrice, modalState'.selections)
                >= calculateUnitPrice(modalState.basePrice, modalState.selections)
    ]_vars

\* C20 witness: the session of item 3 has both options of group 20 checked,
\* the cheaper one last, and prices the unit at 47.50
C20_Witness ==
  /\ modalState # NoModal
  /\ modalState.menuItemId = 3
  /\ Len(modalState.selections[1].options) = 2
  /\ modalState.selections[1].options[2].id = 2
  /\ modalState.selections[2].option = NoOption
  /\ modalState.currentUnitPrice = 47500

\* the text "1::base" as code units
Key1Base == <<49, 58, 58, 98, 97, 115, 101>>

\* items of the catalog without option groups and without special option
PlainItems ==
  {i \in MenuIds : menuConfigs[i].groups = <<>> /\ menuConfigs[i].special = NoSpecial}

\* C21: no session is ever open for an item without groups and without a
\* special option.  A step taken while no session is open that puts units
\* into the cart puts exactly one unit under the key "<id>::base" of such an
\* item, whose line has the item's base price and no note, and opens no
\* session; on an empty cart it leaves the single line of that key with
\* quantity 1 and a total equal to the base price ("1::base" at 50.00 for
\* item 1).
C21_SimpleAdd ==
  /\ [](modalState # NoModal => modalState.menuItemId \notin PlainItems)
  /\ [][(modalState = NoModal /\ UpsertStep) =>
          /\ modalState' = NoModal
          /\ CartUnits(orderState') = CartUnits(orderState) + 1
          /\ \/ \E k \in 1..Len(orderState) :
                  orderState' = [orderState EXCEPT ![k].quantity = @ + 1]
             \/ \E i \in PlainItems :
                  /\ buildItemKey(i, StrBase) \notin KeysOf(orderState)
                  /\ orderState' = Append(orderState,
                                          [key |-> NumberToString(i) \o <<58, 58, 98, 97, 115, 101>>,
                                           menuItemId |-> i,
                                           unitPrice |-> menuConfigs[i].base_price,
                                           quantity |-> 1,
                                           note |-> <<>>,
                                           selections |-> <<>>])
          /\ orderState = <<>> =>
               /\ Len(orderState') = 1
               /\ orderState'[1].quantity = 1
               /\ orderTotalLabel' = menuConfigs[orderState'[1].menuItemId].base_price
               /\ orderState'[1].menuItemId = 1 =>
                    /\ orderState'[1].key = Key1Base
                    /\ orderState'[1].unitPrice = 50000
                    /\ orderTotalLabel' = 50000
       ]_vars

\* C21 witness: one add of item 1 on the empty cart: a single line 1::base
\* of quantity 1 at 50, total 50, no session
C21_Witness ==
  /\ modalState = NoModal
  /\ Len(orderState) = 1
  /\ orderState[1].key = Key1Base
  /\ orderState[1].quantity = 1
  /\ orderState[1].unitPrice = 50000
  /\ orderTotalLabel = 50000

\* the unit price the leniency policy gives a line or session of item i
\* with the chosen option ids ids: what the catalog leaves out counts as 0,
\* so item 6 costs the 1.50 of option 63 if chosen and nothing otherwise,
\* item 7 its 15 and item 9 the 12 of its card
LenientPrice(i, ids) ==
  CASE i = 6 -> (IF 63 \in ids THEN 1500 ELSE 0)
    [] i = 7 -> 15000
    [] i = 9 -> 12000

\* all option ids chosen in selections
AllChosenIds(selections) ==
  UNION {ChosenIds(selections[k]) : k \in 1..Len(selections)}

\* C22: with catalog entries that leave out the base price, option prices,
\* the special price, a group's options array or the groups list, and with a
\* card whose item the catalog does not have, every price in the page is a
\* number: a left out price counts as 0 in the unit price of every session
\* and cart line and in the total; the group without options array has no
\* option to choose and never a choice; the item without groups list and the
\* item absent from the catalog never open a session and are added as
\* "<id>::base" lines at the card price.
C22_LenientCatalog ==
  /\ orderTotalLabel \in Nat
  /\ orderTotalLabel = ToFixed2(CartSum(orderState))
  /\ \A k \in 1..Len(orderState) :
       /\ orderState[k].unitPrice \in Nat
       /\ orderState[k].unitPrice
            = LenientPrice(orderState[k].menuItemId, AllChosenIds(orderState[k].selections))
       /\ orderState[k].menuItemId \in {7, 9} =>
            /\ orderState[k].key = buildItemKey(orderState[k].menuItemId, StrBase)
            /\ orderState[k].selections = <<>>
       /\ orderState[k].menuItemId = 6 =>
            /\ Len(orderState[k].selections) = 3
            /\ ChosenIds(orderState[k].selections[1]) = {}
            /\ ChosenIds(orderState[k].selections[2]) # {}
  /\ modalState # NoModal =>
       /\ modalState.menuItemId = 6
       /\ Len(modalState.selections) = 3
       /\ ChosenIds(modalState.selections[1]) = {}
       /\ ChosenIds(modalState.selections[2]) \in {{60}, {63}}
       /\ modalState.basePrice = 0
       /\ modalState.specialInfo # NoSpecial
       /\ modalState.specialInfo.price = 0
       /\ modalState.currentUnitPrice
            = LenientPrice(6, AllChosenIds(modalState.selections))
       /\ validateSelections(modalState) = NoAlert

\* C22 witness: the cart holds a line of item 6 committed with options 63
\* and 61 and the special toggle on, at 1.50, and the line of item 9 at 12
C22_Witness ==
  /\ Len(orderState) = 2
  /\ orderState[1].menuItemId = 6
  /\ AllChosenIds(orderState[1].selections) = {63, 61}
  /\ orderState[1].note # buildSelectionNote(orderState[1].selections)
  /\ orderState[1].unitPrice = 1500
  /\ orderState[2].menuItemId = 9
  /\ orderState[2].unitPrice = 12000
  /\ orderTotalLabel = 13500

\* the positions of the groups whose selection differs between two sessions
ChangedGroups(a, b) ==
  {k \in 1..Len(a.selections) : a.selections[k] # b.selections[k]}

\* C23: in a step that leaves the session open the selections change in at
\* most one group, and only in a step that is a change event of that group:
\* the quantity and the special toggle are as before.  A step that changes
\* the quantity or the special toggle, and a rejected confirm, leave every
\* selection as it was, so a choice other than the default first option is
\* never replaced by the default.
C23_DefaultsFixedAtOpen ==
  [][(modalState # NoModal /\ modalState' # NoModal) =>
       /\ modalState'.groups = modalState.groups
       /\ Cardinality(ChangedGroups(modalState, modalState')) <= 1
       /\ modalState'.selections # modalState.selections =>
            /\ modalState'.quantity = modalState.quantity
            /\ modalState'.specialSelected = modalState.specialSelected
            /\ alertMsg' = NoAlert
       /\ (\/ modalState'.quantity # modalState.quantity
           \/ modalState'.specialSelected # modalState.specialSelected
           \/ alertMsg' # NoAlert) =>
            modalState'.selections = modalState.selections
    ]_vars

\* C23 witness: in a session of item 2 the user chose option 101 instead of
\* the default 100, then toggled the special option and raised the
\* quantity: the choice is still 101
C23_Witness ==
  /\ modalState # NoModal
  /\ modalState.menuItemId = 2
  /\ ChosenIds(modalState.selections[1]) = {101}
  /\ modalState.specialSelected
  /\ modalState.quantity = 2

\* a pointerdown on the lime was handled
SqueezeStep == \E isDown \in BOOLEAN, inside \in BOOLEAN : handleSqueeze(isDown, inside)
\* the retry button started a new game
RetryStep == resultOverlay.visible /\ ~resultOverlay'.visible

GameState ==
  /\ timeLeft \in 0..GAME_DURATION
  /\ squeezeCount \in 0..TARGET_JUICE
  /\ timeLeft < GAME_DURATION => isPlaying \/ gameOver
  /\ reports = IF gameOver THEN 1 ELSE 0
  /\ ~gameOver => /\ squeezeCount < TARGET_JUICE
                  /\ timeLeft > 0
                  /\ ~resultOverlay.visible
  /\ gameOver => /\ resultOverlay.visible
                 /\ resultOverlay.success \in {"true", "false"}
                 /\ resultOverlay.success = "true" <=>
                      (squeezeCount = TARGET_JUICE /\ timeLeft > 0)
                 /\ resultOverlay.success = "false" <=>
                      (squeezeCount < TARGET_JUICE /\ timeLeft = 0)

GameStep ==
  /\ (isPlaying' /\ ~isPlaying) => SqueezeStep
  /\ (timeLeft' # timeLeft /\ ~RetryStep) => isPlaying /\ timeLeft' = timeLeft - 1
  /\ (squeezeCount' # squeezeCount /\ ~RetryStep) =>
       timeLeft > 0 /\ squeezeCount' = squeezeCount + 1
  /\ RetryStep => timeLeft' = GAME_DURATION /\ squeezeCount' = 0 /\ ~isPlaying'

\* C24: the countdown of the minigame starts at 30 and runs only once a
\* squeeze was handled; the game is over with success exactly when the count
\* reached the target with time left, over with failure when the countdown
\* reached 0 with the count below the target, otherwise still running; the
\* count rises only while time is left; each game reports its result once
C24_GameOutcome == [](GameState) /\ [][GameStep]_vars

\* a game won after the countdown had run for a while
C24_Witness ==
  /\ gameOver
  /\ resultOverlay.success = "true"
  /\ squeezeCount = TARGET_JUICE
  /\ timeLeft < GAME_DURATION
  /\ reports = 1


\* C25: at most one order submission is in flight at any time, and the submit
\* button stays disabled from the submit action until the response of that
\* request has been handled, whatever is added to the cart in the meantime
C25_OneSubmissionInFlight ==
  /\ PhaseCount(inflight, "fetch") <= 1
  /\ PhaseCount(inflight, "fetch") > 0 => submitDisabled

\* C26: what the handling of a success response clears from the cart was
\* sent: every line of the cart at that moment is an element of the body of
\* the request that succeeded, with at least the quantity of the line
C26_ClearsOnlyWhatWasSent ==
  [][SuccessStep =>
       LET body == EndedInvocation.body IN
       \A k \in 1..Len(orderState) :
         \E m \in 1..Len(body.items) :
           /\ body.items[m].menu_item_id = orderState[k].menuItemId
           /\ body.items[m].note = orderState[k].note
           /\ body.items[m].unit_price = ToFixed2(orderState[k].unitPrice)
           /\ body.items[m].quantity >= orderState[k].quantity
  ]_vars


\* C27: whenever the QR preview of the billing page is visible, the image it
\* shows was made for exactly the orders selected now; every change of the
\* selection hides the preview
C27_PreviewMatchesSelection ==
  /\ [](~qrPreviewHidden => qrImageSrc = getSelection(checkedRows).ids)
  /\ [][checkedRows' # checkedRows => qrPreviewHidden']_vars

\* a pending-orders response was rendered
RenderStep == \E k \in 1..Len(fetchInflight) : FetchRender(k)
\* the orders on display, with their status labels
Displayed(cards) == [k \in 1..Len(cards) |-> [id |-> cards[k].id, status |-> cards[k].status]]

\* C28: what the kitchen dashboard shows, and currentOrderIds, come from the
\* most recently issued pending-orders request among those rendered: the
\* response of a request issued before one already rendered changes neither
\* the list on display nor currentOrderIds, and announces nothing
C28_NewestListStays ==
  [][(RenderStep /\ renderedStale') =>
       /\ Displayed(ordersContainer') = Displayed(ordersContainer)
       /\ currentOrderIds' = currentOrderIds
       /\ beeps' = 0
  ]_vars


\* the selector of the k-th card was set to "paid" while a balance is due
RefusedPaid(k) ==
  /\ k \in 1..Len(ordersContainer)
  /\ ordersContainer[k].paidDisabled
  /\ kitchenAlert' = Quiet
  /\ StatusChange(k, "paid")
\* a failed status request was handled
StatusFailureStep(j) ==
  /\ j \in 1..Len(statusInflight)
  /\ kitchenAlert' = "error"
  /\ StatusFailure(j)
\* a successful status request was handled
StatusSuccessStep(j) == j \in 1..Len(statusInflight) /\ StatusSuccess(j)

Rendering(k) == k \in 1..Len(fetchInflight) /\ FetchRender(k)

\* C30: a rendering of a pending-orders list leaves currentOrderIds equal to
\* the ids of that list; it plays the notification iff some id of the list
\* was not in currentOrderIds before; an order announced as new and listed by
\* every rendering since is not announced again
C30_AnnouncedOnce ==
  [][\A k \in 1..MaxRequests :
       Rendering(k) =>
         LET ids == ListIds(fetchInflight[k].orders) IN
         /\ currentOrderIds' = ids
         /\ beeps' > 0 <=> (ids \ currentOrderIds # {})
         /\ (ids \ currentOrderIds) \cap announced = {}
  ]_vars

\* the required single-selection groups of the open session that have at
\* least one option
RequiredSingleGroups(state) ==
  {state.groups[k].id : k \in {m \in 1..Len(state.groups) :
     /\ state.groups[m].selection_type = "single"
     /\ state.groups[m].is_required
     /\ Len(ArrayOrEmpty(state.groups[m].options)) > 0}}

\* every required single-selection group with options has an option chosen
RequiredSingleChosen(state) ==
  \A g \in RequiredSingleGroups(state) :
    /\ SelIndex(state.selections, g) # 0
    /\ state.selections[SelIndex(state.selections, g)].option # NoOption

\* a confirm click that validateSelections rejects
ConfirmRejected ==
  /\ modalState # NoModal
  /\ validateSelections(modalState) # NoAlert
  /\ alertMsg' = validateSelections(modalState)
  /\ modalState' = modalState

\* C31: for a required single-selection group that has at least one option,
\* the chosen option is non-null in every state of an open customization
\* session, and no confirm is rejected on account of such a group
C31_RequiredSingleAlwaysChosen ==
  /\ [](modalState # NoModal => RequiredSingleChosen(modalState))
  /\ [][ConfirmRejected =>
          alertMsg'.group \notin RequiredSingleGroups(modalState)]_vars

\* a confirm of a session that has such a group, with another option than
\* the default one chosen, was rejected on account of another group
C31_Witness ==
  /\ modalState # NoModal
  /\ alertMsg # NoAlert
  /\ alertMsg = validateSelections(modalState)
  /\ \E g \in RequiredSingleGroups(modalState) :
       LET k == CHOOSE m \in 1..Len(modalState.groups) : modalState.groups[m].id = g
       IN modalState.selections[SelIndex(modalState.selections, g)].option.id
            # modalState.groups[k].options[1].id

\* a step that renders orders as the active orders of the table
ActiveRendering(orders) ==
  \/ ActiveOrdersRender(orders)
  \/ \E inv \in BagToSet(inflight) : SubmitRender(inv, orders)

\* a step in which a fetch of the active orders fails
ActiveFetchFailed ==
  \/ ActiveOrdersFailure
  \/ \E inv \in BagToSet(inflight) : inv.phase = "active" /\ SubmitFinally(inv)

\* C32: at most one active-orders polling timer exists at any time; after
\* every rendering of the table's active orders the timer is running if and
\* only if the rendered list is non-empty; a failed fetch of the active
\* orders changes neither the timer nor the displayed list
C32_OnePollingTimer ==
  /\ [](Cardinality(timers) <= 1)
  /\ [][\A orders \in TableOrderLists :
          ActiveRendering(orders) =>
            /\ (timers' # {}) <=> (Len(orders) > 0)
            /\ timers' # {} => timers' = {pollHandle'}]_vars
  /\ [][ActiveFetchFailed =>
          UNCHANGED <<timers, pollHandle, activeOrdersList, activeOrdersHidden>>]_vars

\* the section is hidden with no timer left while it still holds the cards
\* of an earlier rendering, and a fetch is in flight: a timer was started by
\* a non-empty rendering and stopped by an empty one
C32_Witness ==
  /\ activeOrdersHidden
  /\ Len(activeOrdersList) = 2
  /\ timers = {}
  /\ pollHandle = NoHandle
  /\ activeFetches > 0

\* the order ids of the checked rows, in row order
RECURSIVE CheckedIds(_)
CheckedIds(k) ==
  IF k = 0 THEN <<>>
  ELSE CheckedIds(k - 1) \o (IF k \in checkedRows THEN <<rows[k].orderId>> ELSE <<>>)

\* the sum of the balances of the checked rows
RECURSIVE CheckedTotal(_)
CheckedTotal(k) ==
  IF k = 0 THEN 0
  ELSE CheckedTotal(k - 1) + (IF k \in checkedRows THEN rows[k].balance ELSE 0)

\* a step that sends a QR request
QrRequestSent == BagCardinality(qrInflight') > BagCardinality(qrInflight)

\* C33: on the billing page, after page load and after every checkbox
\* change or clear-selection action, the hidden order-id field lists exactly
\* the ids of the checked rows in row order and the confirm-paid button is
\* disabled if and only if no row is checked; the settle form cannot be
\* submitted while no row is checked; no QR request is sent when no row is
\* checked or the selected total is not positive
C33_BillingSelection ==
  /\ [](/\ hiddenInput = CheckedIds(Len(rows))
        /\ confirmBtnDisabled <=> (checkedRows = {}))
  /\ [][(~settleSubmitted /\ settleSubmitted') => checkedRows # {}]_vars
  /\ [][QrRequestSent => (checkedRows # {} /\ CheckedTotal(Len(rows)) > 0)]_vars

\* the settle form went out with the first and the last row checked, after
\* a QR request for them was sent
C33_Witness ==
  /\ settleSubmitted
  /\ checkedRows = {1, 3}
  /\ hiddenInput = <<11, 13>>
  /\ ~confirmBtnDisabled
  /\ qrInflight # EmptyBag

\* a tick of the countdown that brings it to 0
CountdownEnds == updateTimer /\ isPlaying /\ timeLeft > 0 /\ timeLeft' <= 0

\* C34: when the countdown reaches 0 while the squeeze count is below the
\* target, the result banner is set to the timeout ("Game Over") text before
\* the game is ended; when the target was reached the banner keeps the
\* success text
C34_TimeoutBanner ==
  /\ [][(CountdownEnds /\ squeezeCount < TARGET_JUICE) =>
          (resultBanner'.text = "timeout" /\ gameOver')]_vars
  /\ [][(CountdownEnds /\ squeezeCount >= TARGET_JUICE) =>
          (resultBanner'.text = "success")]_vars
  /\ [](gameOver /\ squeezeCount >= TARGET_JUICE => resultBanner.text = "success")

====
